---- MODULE Spec2Model ----
(***************************************************************************)
(* Connection registry and tool layer of pro-mcp-postgres.                 *)
(*                                                                         *)
(* Two programs share the design: postgres_server.py (DatabaseManager and  *)
(* the FastMCP tool functions) and sse_server.py (SimpleDBManager and the  *)
(* JSON-RPC dispatcher of the /sse and /mcp endpoints).  The variable impl *)
(* says which program a behaviour is a run of.                             *)
(*                                                                         *)
(* Python values: a dict is a sequence of [name, dsn] records in insertion *)
(* order, a str is a TLA+ string, None is the value None below, and the    *)
(* POSTGRES_CONNECTION_STRING value is a sequence of one-character strings *)
(* so that split(',') and strip() are computed, not assumed.               *)
(***************************************************************************)
EXTENDS Integers, Sequences, FiniteSets, TLC

VARIABLES
    impl,          \* "postgres_server" or "sse_server"
    pc,            \* "new": __init__ has set the empty fields; "serving": loaded
    sources,       \* argv and environment read by the load
    connections,   \* self.connections: name -> connection string, in insertion order
    current_db,    \* self.current_db
    open_conns,    \* connections opened by psycopg2.connect and not closed
    last,          \* the last tool invocation: arguments, outcome, state before it
    round_trip,    \* a successful add of a name and the remove that followed it
    catalog,       \* rows of information_schema.columns the backend holds
    exchange,      \* the last request served at the tool boundary and its response
    race           \* concurrent invocations inside the registry operations

vars ==
    <<impl, pc, sources, connections, current_db, open_conns, last, round_trip,
      catalog, exchange, race>>

-----------------------------------------------------------------------------
(* Bounds of the model. *)

MaxConnStrLen == 3     \* characters of POSTGRES_CONNECTION_STRING (LoadSpec)
MaxNamed == 2          \* POSTGRES_DB_<NAME> variables in the environment (LoadSpec)
MaxEntries == 2        \* entries the registry may hold while serving
MaxOpen == 1           \* connections left open that the model counts
MaxCatalogRows == 3    \* rows of information_schema.columns (InferSpec)

-----------------------------------------------------------------------------
(* Python values. *)

\* None: no str of the model equals it.
None == "<None>"

\* bool(x) for x a str or None.
Truthy(x) == x # None /\ x # ""

RECURSIVE Str(_)
\* The str made of a sequence of characters.
Str(cs) == IF cs = <<>> THEN "" ELSE Head(cs) \o Str(Tail(cs))

RECURSIVE LStrip(_)
LStrip(cs) == IF cs # <<>> /\ Head(cs) = " " THEN LStrip(Tail(cs)) ELSE cs

RECURSIVE RStrip(_)
RStrip(cs) ==
    IF cs # <<>> /\ cs[Len(cs)] = " " THEN RStrip(SubSeq(cs, 1, Len(cs) - 1)) ELSE cs

\* str.strip()
Strip(cs) == RStrip(LStrip(cs))

RECURSIVE Split(_, _)
\* str.split(','): acc is the element being read.
Split(cs, acc) ==
    IF cs = <<>> THEN <<acc>>
    ELSE IF Head(cs) = "," THEN <<acc>> \o Split(Tail(cs), <<>>)
    ELSE Split(Tail(cs), Append(acc, Head(cs)))

\* [conn.strip() for conn in connection_string.split(",")]
SplitConnections(cs) ==
    LET parts == Split(cs, <<>>) IN [i \in 1..Len(parts) |-> Str(Strip(parts[i]))]

\* key[12:].lower() for the key "POSTGRES_DB_" + suffix
Lower(suffix) ==
    CASE suffix = "PRIMARY" -> "primary"
      [] suffix = "DB_2" -> "db_2"
      [] suffix = "X" -> "x"
      [] OTHER -> suffix

\* f"db_{i + 1}" for the 0-based index i, given the 1-based position k = i + 1
DbName(k) == "db_" \o ToString(k)

-----------------------------------------------------------------------------
(* dict operations on connections. *)

\* name in d
Has(d, name) == \E i \in 1..Len(d) : d[i].name = name

\* list(d.keys())
Keys(d) == [i \in 1..Len(d) |-> d[i].name]

\* d[name], for name in d
Get(d, name) == d[CHOOSE i \in 1..Len(d) : d[i].name = name].dsn

\* Faulty variant of d[name] = dsn: an existing key is deleted and goes last
\* with the new value.
Put_MovesLast(d, name, dsn) ==
    Append(SelectSeq(d, LAMBDA e : e.name # name), [name |-> name, dsn |-> dsn])

\* d[name] = dsn: an existing key keeps its place, a new key goes last
Put(d, name, dsn) ==
    IF Has(d, name)
    THEN [i \in 1..Len(d) |-> IF d[i].name = name THEN [name |-> name, dsn |-> dsn] ELSE d[i]]
    ELSE Append(d, [name |-> name, dsn |-> dsn])

\* del d[name]
Del(d, name) == SelectSeq(d, LAMBDA e : e.name # name)

\* next(iter(d.keys())) if d else None
FirstKey(d) == IF d = <<>> THEN None ELSE d[1].name

RECURSIVE Join(_, _)
\* sep.join(names)
Join(names, sep) ==
    IF names = <<>> THEN ""
    ELSE IF Len(names) = 1 THEN names[1]
    ELSE names[1] \o sep \o Join(Tail(names), sep)

\* str(list(d.keys())), as in the NotFound message of DatabaseManager
ReprList(names) ==
    "[" \o Join([i \in 1..Len(names) |-> "'" \o names[i] \o "'"], ", ") \o "]"

Registry(d, cur) == [connections |-> d, current_db |-> cur]

-----------------------------------------------------------------------------
(* Loading the registry. *)

RECURSIVE LoadListPg_CountsStored(_, _, _)
\* Faulty variant of LoadListPg: a later element is numbered by the entries
\* stored so far, not by its position in the list.
LoadListPg_CountsStored(reg, elems, k) ==
    IF k > Len(elems) THEN reg
    ELSE IF elems[k] = "" THEN LoadListPg_CountsStored(reg, elems, k + 1)
    ELSE IF k = 1 /\ ~Truthy(reg.current_db)
         THEN LoadListPg_CountsStored(
                  Registry(Put(reg.connections, "primary", elems[k]), "primary"), elems, k + 1)
         ELSE LoadListPg_CountsStored(
                  Registry(Put(reg.connections, DbName(Len(reg.connections) + 1), elems[k]),
                           reg.current_db), elems, k + 1)

RECURSIVE LoadListPg(_, _, _)
\* postgres_server: the loop over the comma-separated list; k is the 1-based
\* position of the next element (i = k - 1 in the source).
LoadListPg(reg, elems, k) ==
    IF k > Len(elems) THEN reg
    ELSE IF elems[k] = "" THEN LoadListPg(reg, elems, k + 1)
    ELSE IF k = 1 /\ ~Truthy(reg.current_db)
         THEN LoadListPg(Registry(Put(reg.connections, "primary", elems[k]), "primary"),
                         elems, k + 1)
         ELSE LoadListPg(Registry(Put(reg.connections, DbName(k), elems[k]), reg.current_db),
                         elems, k + 1)

RECURSIVE LoadNamedPg(_, _)
\* postgres_server: the loop over the POSTGRES_DB_<NAME> variables of os.environ.
LoadNamedPg(reg, named) ==
    IF named = <<>> THEN reg
    ELSE LET db_name == Lower(Head(named).suffix)
             d == Put(reg.connections, db_name, Head(named).value)
             cur == IF ~Truthy(reg.current_db) THEN db_name ELSE reg.current_db
         IN  LoadNamedPg(Registry(d, cur), Tail(named))

\* DatabaseManager._load_connections, from the empty registry of __init__
DatabaseManager_load_connections(src) ==
    LET r1 == IF Truthy(src.conn)
              THEN Registry(Put(<<>>, "primary", src.conn), "primary")
              ELSE Registry(<<>>, None)
        r2 == IF src.connection_string # <<>>
              THEN LoadListPg(r1, SplitConnections(src.connection_string), 1)
              ELSE r1
    IN  LoadNamedPg(r2, src.named)

RECURSIVE LoadListSse(_, _, _)
\* sse_server: the loop over the comma-separated list.
LoadListSse(reg, elems, k) ==
    IF k > Len(elems) THEN reg
    ELSE LET name == IF k > 1 THEN DbName(k) ELSE "primary"
             cur == IF reg.current_db = None THEN name ELSE reg.current_db
         IN  LoadListSse(Registry(Put(reg.connections, name, elems[k]), cur), elems, k + 1)

\* SimpleDBManager.load_connections, from the empty registry of __init__
SimpleDBManager_load_connections(src) ==
    IF src.connection_string # <<>>
    THEN LoadListSse(Registry(<<>>, None), SplitConnections(src.connection_string), 1)
    ELSE Registry(<<>>, None)

LoadOf(im, src) ==
    IF im = "postgres_server" THEN DatabaseManager_load_connections(src)
    ELSE SimpleDBManager_load_connections(src)

\* Sequences over S of length at most n.
SeqsUpTo(S, n) == UNION {[1..m -> S] : m \in 0..n}

\* The POSTGRES_DB_* variables: distinct keys, in the order of os.environ.
NamedEntries(suffixes, values, n) ==
    {s \in SeqsUpTo([suffix : suffixes, value : values], n) :
        \A i, j \in 1..Len(s) : i # j => s[i].suffix # s[j].suffix}

\* What the load reads: --conn, POSTGRES_CONNECTION_STRING (unset is read as
\* the empty sequence: both are falsy) and the POSTGRES_DB_* variables.
\* sse_server reads the connection string only.
SourcesOf(im, conns, chars, len, suffixes, n) ==
    IF im = "postgres_server"
    THEN [conn : conns, connection_string : SeqsUpTo(chars, len),
          named : NamedEntries(suffixes, {"c"}, n)]
    ELSE [conn : {None}, connection_string : SeqsUpTo(chars, len), named : {<<>>}]

Impls == {"postgres_server", "sse_server"}

-----------------------------------------------------------------------------
(* DatabaseManager (postgres_server). Each operation returns the registry   *)
(* after it and what it returned.                                           *)

\* Faulty variant of switch_database: no membership test.
DatabaseManager_switch_database_Unchecked(reg, db_name) ==
    [reg |-> Registry(reg.connections, db_name), ret |-> TRUE]

\* DatabaseManager.switch_database
DatabaseManager_switch_database(reg, db_name) ==
    IF ~Has(reg.connections, db_name)
    THEN [reg |-> reg, ret |-> FALSE]
    ELSE [reg |-> Registry(reg.connections, db_name), ret |-> TRUE]

\* Faulty variant of add_database: the entry is stored before the probe.
DatabaseManager_add_database_StoresFirst(reg, name, connection_string, probe_ok) ==
    [reg |-> Registry(Put(reg.connections, name, connection_string), reg.current_db),
     ret |-> probe_ok]

\* DatabaseManager.add_database; probe_ok: psycopg2.connect(connection_string)
\* and conn.close() raised nothing
DatabaseManager_add_database(reg, name, connection_string, probe_ok) ==
    IF probe_ok
    THEN [reg |-> Registry(Put(reg.connections, name, connection_string), reg.current_db),
          ret |-> TRUE]
    ELSE [reg |-> reg, ret |-> FALSE]

\* Faulty variant of remove_database: current_db is left naming the removed
\* entry.
DatabaseManager_remove_database_StaleCurrent(reg, name) ==
    IF ~Has(reg.connections, name)
    THEN [reg |-> reg, ret |-> FALSE]
    ELSE [reg |-> Registry(Del(reg.connections, name), reg.current_db), ret |-> TRUE]

\* DatabaseManager.remove_database
DatabaseManager_remove_database(reg, name) ==
    IF ~Has(reg.connections, name)
    THEN [reg |-> reg, ret |-> FALSE]
    ELSE LET d == Del(reg.connections, name)
         IN  [reg |-> Registry(d, IF reg.current_db = name THEN FirstKey(d)
                                  ELSE reg.current_db),
              ret |-> TRUE]

\* DatabaseManager.get_connection up to the call of psycopg2.connect: the entry
\* it targets, or the RuntimeError it raises
DatabaseManager_get_connection(reg, db_name) ==
    LET target_db == IF Truthy(db_name) THEN db_name ELSE reg.current_db IN
    IF ~Truthy(target_db)
    THEN [error |-> "NotSelected", target |-> None, dsn |-> None,
          message |-> "No database selected. Use switch_database() or provide db_name parameter."]
    ELSE IF ~Has(reg.connections, target_db)
    THEN [error |-> "NotFound", target |-> None, dsn |-> None,
          message |-> "Database '" \o target_db \o "' not found. Available databases: "
                      \o ReprList(Keys(reg.connections))]
    ELSE [error |-> "", target |-> target_db, dsn |-> Get(reg.connections, target_db),
          message |-> ""]

-----------------------------------------------------------------------------
(* SimpleDBManager (sse_server). *)

\* Faulty variant of add_database: the first entry added to a registry
\* without a current one becomes current.
SimpleDBManager_add_database_SelectsFirst(reg, name, connection_string, probe_ok) ==
    IF probe_ok
    THEN [reg |-> Registry(Put(reg.connections, name, connection_string),
                           IF reg.current_db = None THEN name ELSE reg.current_db),
          ret |-> TRUE]
    ELSE [reg |-> reg, ret |-> FALSE]

\* SimpleDBManager.add_database
SimpleDBManager_add_database(reg, name, connection_string, probe_ok) ==
    IF probe_ok
    THEN [reg |-> Registry(Put(reg.connections, name, connection_string), reg.current_db),
          ret |-> TRUE]
    ELSE [reg |-> reg, ret |-> FALSE]

\* Faulty variant of remove_database: removing the current entry clears
\* current_db even when other entries remain.
SimpleDBManager_remove_database_ClearsCurrent(reg, name) ==
    IF ~Has(reg.connections, name)
    THEN [reg |-> reg, ret |-> FALSE]
    ELSE [reg |-> Registry(Del(reg.connections, name),
                           IF reg.current_db = name THEN None ELSE reg.current_db),
          ret |-> TRUE]

\* Faulty variant of remove_database: the entry added last is removed
\* (popitem), whatever the name.
SimpleDBManager_remove_database_PopsLast(reg, name) ==
    IF ~Has(reg.connections, name)
    THEN [reg |-> reg, ret |-> FALSE]
    ELSE LET d == SubSeq(reg.connections, 1, Len(reg.connections) - 1)
         IN  [reg |-> Registry(d, IF reg.current_db = name THEN FirstKey(d)
                                  ELSE reg.current_db),
              ret |-> TRUE]

\* SimpleDBManager.remove_database
SimpleDBManager_remove_database(reg, name) ==
    IF ~Has(reg.connections, name)
    THEN [reg |-> reg, ret |-> FALSE]
    ELSE LET d == Del(reg.connections, name)
         IN  [reg |-> Registry(d, IF reg.current_db = name THEN FirstKey(d)
                                  ELSE reg.current_db),
              ret |-> TRUE]

\* SimpleDBManager.get_connection up to the call of psycopg2.connect.  The
\* lookup self.connections[self.current_db] raises KeyError when the current
\* name is not a key.
SimpleDBManager_get_connection(reg, db_name) ==
    IF Truthy(db_name) /\ Has(reg.connections, db_name)
    THEN [error |-> "", target |-> db_name, dsn |-> Get(reg.connections, db_name),
          message |-> ""]
    ELSE IF Truthy(reg.current_db)
    THEN IF Has(reg.connections, reg.current_db)
         THEN [error |-> "", target |-> reg.current_db,
               dsn |-> Get(reg.connections, reg.current_db), message |-> ""]
         ELSE [error |-> "KeyError", target |-> None, dsn |-> None,
               message |-> "'" \o reg.current_db \o "'"]
    ELSE [error |-> "NotSelected", target |-> None, dsn |-> None,
          message |-> "No database connection available"]

-----------------------------------------------------------------------------
(* What a tool invocation did: the text it returned, the registry after it, *)
(* the registry method it called (if any) and what that returned, the entry *)
(* it connected to, the exception its resolve raised (if any), and the      *)
(* connections it opened, closed and committed.                             *)

Result(reg, text) ==
    [reg |-> reg, text |-> text, registry_op |-> "", registry_ret |-> FALSE,
     error |-> "", target |-> None, dsn |-> None, opened |-> 0, closed |-> 0,
     committed |-> FALSE]

\* The message of the exception a failing backend call raises.
BackendMessage == "backend error"

-----------------------------------------------------------------------------
(* Tool functions of postgres_server. *)

\* list_databases: one line per name, the current one marked
Pg_list_databases(reg) ==
    LET databases == Keys(reg.connections)
        line(db) == "* " \o db \o (IF db = reg.current_db THEN " (current)" ELSE "")
    IN  IF databases = <<>>
        THEN Result(reg, "No database connections configured.")
        ELSE Result(reg, Join(<<"Available databases:", "-------------------">>
                              \o [i \in 1..Len(databases) |-> line(databases[i])], "\n"))

\* switch_database
Pg_switch_database(reg, db_name) ==
    LET r == DatabaseManager_switch_database(reg, db_name) IN
    [Result(r.reg, IF r.ret
                   THEN "Switched to database: " \o db_name
                   ELSE "Database '" \o db_name \o "' not found. Available databases: "
                        \o Join(Keys(reg.connections), ", "))
     EXCEPT !.registry_op = "switch_database", !.registry_ret = r.ret]

\* get_current_database
Pg_get_current_database(reg) ==
    Result(reg, IF Truthy(reg.current_db)
                THEN "Current database: " \o reg.current_db
                ELSE "No database currently selected.")

\* add_database_connection
Pg_add_database_connection(reg, name, connection_string, probe_ok) ==
    LET r == DatabaseManager_add_database(reg, name, connection_string, probe_ok) IN
    [Result(r.reg, IF r.ret
                   THEN "Successfully added database connection: " \o name
                   ELSE "Failed to add database connection: " \o name)
     EXCEPT !.registry_op = "add_database", !.registry_ret = r.ret,
            !.opened = IF probe_ok THEN 1 ELSE 0, !.closed = IF probe_ok THEN 1 ELSE 0]

\* Faulty variant of remove_database_connection: "primary" is not refused.
Pg_remove_database_connection_Unguarded(reg, name) ==
    LET r == DatabaseManager_remove_database(reg, name) IN
    [Result(r.reg, IF r.ret
                   THEN "Successfully removed database connection: " \o name
                   ELSE "Database connection '" \o name \o "' not found.")
     EXCEPT !.registry_op = "remove_database", !.registry_ret = r.ret]

\* remove_database_connection
Pg_remove_database_connection(reg, name) ==
    IF name = "primary"
    THEN Result(reg, "Cannot remove the primary database connection.")
    ELSE LET r == DatabaseManager_remove_database(reg, name) IN
         [Result(r.reg, IF r.ret
                        THEN "Successfully removed database connection: " \o name
                        ELSE "Database connection '" \o name \o "' not found.")
          EXCEPT !.registry_op = "remove_database", !.registry_ret = r.ret]

\* Faulty variant of query: a statement that returned rows is committed too.
Pg_query_CommitsRows(reg, sql, parameters, database, outcome) ==
    LET c == DatabaseManager_get_connection(reg, database)
        done(text, committed) ==
            [Result(reg, text) EXCEPT !.target = c.target, !.dsn = c.dsn,
                                      !.opened = 1, !.closed = 1, !.committed = committed]
    IN  IF c.error # "" THEN [Result(reg, c.message) EXCEPT !.error = c.error]
        ELSE IF outcome = "connect_fail"
        THEN [Result(reg, "Connection error: " \o BackendMessage)
              EXCEPT !.target = c.target, !.dsn = c.dsn]
        ELSE IF outcome = "cursor_fail"
        THEN done("Connection error: " \o BackendMessage, FALSE)
        ELSE IF outcome \in {"execute_fail", "fetch_fail"} \/ (parameters /\ outcome = "mogrify_fail")
        THEN done("Query error: " \o BackendMessage \o "\nQuery: " \o sql, FALSE)
        ELSE IF outcome = "no_description"
        THEN done("Query executed successfully on '" \o c.target \o "'. Rows affected: 1", TRUE)
        ELSE IF outcome = "no_rows"
        THEN done("No results found on '" \o c.target \o "'", FALSE)
        ELSE IF outcome = "row_format_error"
        THEN done("Results:\n--------\nError formatting row: " \o BackendMessage, FALSE)
        ELSE done("Results:\n--------\nid: 1", TRUE)

\* query: outcome is the backend's part; the finally clause closes whatever
\* get_connection returned
Pg_query(reg, sql, parameters, database, outcome) ==
    LET c == DatabaseManager_get_connection(reg, database)
        done(text, committed) ==
            [Result(reg, text) EXCEPT !.target = c.target, !.dsn = c.dsn,
                                      !.opened = 1, !.closed = 1, !.committed = committed]
    IN  IF c.error # "" THEN [Result(reg, c.message) EXCEPT !.error = c.error]
        ELSE IF outcome = "connect_fail"
        THEN [Result(reg, "Connection error: " \o BackendMessage)
              EXCEPT !.target = c.target, !.dsn = c.dsn]
        ELSE IF outcome = "cursor_fail"
        THEN done("Connection error: " \o BackendMessage, FALSE)
        ELSE IF outcome \in {"execute_fail", "fetch_fail"} \/ (parameters /\ outcome = "mogrify_fail")
        THEN done("Query error: " \o BackendMessage \o "\nQuery: " \o sql, FALSE)
        ELSE IF outcome = "no_description"
        THEN done("Query executed successfully on '" \o c.target \o "'. Rows affected: 1", TRUE)
        ELSE IF outcome = "no_rows"
        THEN done("No results found on '" \o c.target \o "'", FALSE)
        ELSE IF outcome = "row_format_error"
        THEN done("Results:\n--------\nError formatting row: " \o BackendMessage, FALSE)
        ELSE done("Results:\n--------\nid: 1", FALSE)

-----------------------------------------------------------------------------
(* sse_server: SimpleDBManager.execute_query and the tools/call branches of *)
(* sse_post_endpoint.  mcp_endpoint repeats them line for line on the same  *)
(* db_manager, so one operator stands for the branch of both endpoints.     *)

\* SimpleDBManager.execute_query: leaving the with block ends the transaction
\* (commit, or rollback on an exception); nothing calls close()
SimpleDBManager_execute_query(reg, sql, db_name, outcome) ==
    LET c == SimpleDBManager_get_connection(reg, db_name)
        done(text, committed) ==
            [Result(reg, text) EXCEPT !.target = c.target, !.dsn = c.dsn,
                                      !.opened = 1, !.closed = 0, !.committed = committed]
    IN  IF c.error # ""
        THEN [Result(reg, "Database error: " \o c.message) EXCEPT !.error = c.error]
        ELSE IF outcome = "connect_fail"
        THEN [Result(reg, "Database error: " \o BackendMessage)
              EXCEPT !.target = c.target, !.dsn = c.dsn]
        ELSE IF outcome = "execute_fail"
        THEN done("Database error: " \o BackendMessage, FALSE)
        ELSE IF outcome = "no_description"
        THEN done("Query executed successfully. Rows affected: 1", TRUE)
        ELSE IF outcome = "no_rows"
        THEN done("No results returned", TRUE)
        ELSE done("[{id: 1}]", TRUE)

\* tools/call list_databases
Sse_list_databases(reg) ==
    Result(reg, "Available databases: " \o Join(Keys(reg.connections), ", "))

\* tools/call switch_database
Sse_switch_database(reg, db_name) ==
    IF Truthy(db_name) /\ Has(reg.connections, db_name)
    THEN Result(Registry(reg.connections, db_name), "Switched to database: " \o db_name)
    ELSE Result(reg, "Database '" \o (IF db_name = None THEN "None" ELSE db_name)
                     \o "' not found. Available: " \o Join(Keys(reg.connections), ", "))

\* tools/call get_current_database
Sse_get_current_database(reg) ==
    Result(reg, "Current database: "
                \o (IF Truthy(reg.current_db) THEN reg.current_db ELSE "None"))

\* tools/call query
Sse_query(reg, sql, database, outcome) ==
    IF Truthy(sql) THEN SimpleDBManager_execute_query(reg, sql, database, outcome)
    ELSE Result(reg, "Error: SQL query is required")

\* tools/call add_database_connection
Sse_add_database_connection(reg, name, connection_string, probe_ok) ==
    IF Truthy(name) /\ Truthy(connection_string)
    THEN LET r == SimpleDBManager_add_database(reg, name, connection_string, probe_ok) IN
         [Result(r.reg, IF r.ret
                        THEN "Successfully added database connection: " \o name
                        ELSE "Failed to add database connection: " \o name)
          EXCEPT !.registry_op = "add_database", !.registry_ret = r.ret,
                 !.opened = IF probe_ok THEN 1 ELSE 0, !.closed = IF probe_ok THEN 1 ELSE 0]
    ELSE Result(reg, "Error: Both name and connection_string are required")

\* Faulty variant of tools/call remove_database_connection: "primary" is not
\* refused.
Sse_remove_database_connection_Unguarded(reg, name) ==
    IF Truthy(name)
    THEN LET r == SimpleDBManager_remove_database(reg, name) IN
         [Result(r.reg, IF r.ret
                        THEN "Successfully removed database connection: " \o name
                        ELSE "Database connection '" \o name \o "' not found.")
          EXCEPT !.registry_op = "remove_database", !.registry_ret = r.ret]
    ELSE Result(reg, "Error: name parameter is required")

\* tools/call remove_database_connection
Sse_remove_database_connection(reg, name) ==
    IF Truthy(name)
    THEN IF name = "primary"
         THEN Result(reg, "Cannot remove the primary database connection.")
         ELSE LET r == SimpleDBManager_remove_database(reg, name) IN
              [Result(r.reg, IF r.ret
                             THEN "Successfully removed database connection: " \o name
                             ELSE "Database connection '" \o name \o "' not found.")
               EXCEPT !.registry_op = "remove_database", !.registry_ret = r.ret]
    ELSE Result(reg, "Error: name parameter is required")

-----------------------------------------------------------------------------
(* SQL text.  A statement is a sequence of tokens (strings): "%s" is a      *)
(* placeholder, "%%" a doubled percent sign, "'" a quote character, and any *)
(* other token a fragment of the text.  An argument value is a sequence of  *)
(* tokens as well.                                                          *)

\* The "%s" placeholders of a statement
Placeholders(sql) == Cardinality({i \in 1..Len(sql) : sql[i] = "%s"})

RECURSIVE EscapeBody(_)
\* The characters of a value inside a quoted literal: each quote is doubled.
EscapeBody(v) ==
    IF v = <<>> THEN <<>>
    ELSE (IF Head(v) = "'" THEN <<"'", "'">> ELSE <<Head(v)>>) \o EscapeBody(Tail(v))

RECURSIVE Bind(_, _)
\* The statement with the k-th placeholder replaced by the literal psycopg2
\* makes of the k-th parameter (a str: quoted, its quotes doubled) and "%%"
\* by "%"
Bind(sql, parameters) ==
    IF sql = <<>> THEN <<>>
    ELSE IF Head(sql) = "%s"
    THEN <<"'">> \o EscapeBody(Head(parameters)) \o <<"'">>
         \o Bind(Tail(sql), Tail(parameters))
    ELSE IF Head(sql) = "%%" THEN <<"%">> \o Bind(Tail(sql), parameters)
    ELSE <<Head(sql)>> \o Bind(Tail(sql), parameters)

\* cur.mogrify(sql, parameters): an exception unless there is one parameter
\* for each placeholder
Mogrify(sql, parameters) ==
    IF Placeholders(sql) # Len(parameters)
    THEN [error |-> TRUE, query_string |-> <<>>]
    ELSE [error |-> FALSE, query_string |-> Bind(sql, parameters)]

\* query_string of query: the empty list (like None) is falsy
Pg_query_string(sql, parameters) ==
    IF parameters # <<>> THEN Mogrify(sql, parameters)
    ELSE [error |-> FALSE, query_string |-> sql]

\* The statement as the str the messages print
SqlText(sql) == Join(sql, " ")

\* f"'{value}'": the value between quotes, as it is
Interpolate(value) == <<"'">> \o value \o <<"'">>

-----------------------------------------------------------------------------
(* The catalog.  Identifiers are sequences of characters, so that LIKE, ||  *)
(* and = on them are computed.  catalog holds the rows (table_name,         *)
(* column_name, data_type) of information_schema.columns for the schema the *)
(* tools are asked about; a table of that schema has a row of               *)
(* information_schema.tables.                                               *)

T_orders == <<"o", "r", "d", "e", "r", "s">>
T_customer == <<"c", "u", "s", "t", "o", "m", "e", "r">>
T_widget == <<"w", "i", "d", "g", "e", "t">>
T_user == <<"u", "s", "e", "r">>

Col_id == <<"i", "d">>
Col_customer_id == <<"c", "u", "s", "t", "o", "m", "e", "r", "_", "i", "d">>
Col_ref_id == <<"r", "e", "f", "_", "i", "d">>
Col_userid == <<"u", "s", "e", "r", "i", "d">>
Col_user_fk == <<"u", "s", "e", "r", "_", "f", "k">>
Col_note == <<"n", "o", "t", "e">>

Row(table_name, column_name, data_type) ==
    [table_name |-> table_name, column_name |-> column_name, data_type |-> data_type]

\* The rows a catalog of the model is made of: columns of the table asked
\* about, and of three other tables.
CatalogRows ==
    {Row(T_orders, c, "integer") :
        c \in {Col_id, Col_customer_id, Col_ref_id, Col_userid, Col_user_fk, Col_note}}
    \cup {Row(T_orders, Col_customer_id, "text")}
    \cup {Row(T_customer, Col_id, ty) : ty \in {"integer", "text"}}
    \cup {Row(t, Col_id, "integer") : t \in {T_widget, T_user}}
    \cup {Row(T_widget, Col_ref_id, "integer")}

RECURSIVE Catalogs(_)
\* The catalogs of at most n rows: a table has one column of a name.
Catalogs(n) ==
    IF n = 0 THEN {{}}
    ELSE LET smaller == Catalogs(n - 1)
             fits(cat, r) == \A x \in cat : x.table_name # r.table_name
                                           \/ x.column_name # r.column_name
         IN  smaller \cup {cat \cup {r} : <<cat, r>> \in {p \in smaller \X CatalogRows :
                                                           fits(p[1], p[2])}}

RECURSIVE Like(_, _)
\* s LIKE p: "%" stands for any characters and "_" for any one character
Like(s, p) ==
    IF p = <<>> THEN s = <<>>
    ELSE IF Head(p) = "%" THEN Like(s, Tail(p)) \/ (s # <<>> /\ Like(Tail(s), p))
    ELSE /\ s # <<>>
         /\ Head(p) = "_" \/ Head(p) = Head(s)
         /\ Like(Tail(s), Tail(p))

\* The CTE source_columns: the ID-like columns of the table
source_columns(cat, table_name) ==
    {c \in cat :
        /\ c.table_name = table_name
        /\ \/ Like(c.column_name, <<"%", "i", "d">>)
           \/ Like(c.column_name, <<"%", "_", "i", "d">>)
           \/ Like(c.column_name, <<"%", "_", "f", "k">>)}

\* The value of a CASE none of whose WHEN holds
NULL == 0

\* Faulty variant of the CASE: the last rule does not compare the types.
confidence_level_AnyType(sc, t, c) ==
    IF sc.column_name = t \o <<"_", "i", "d">> /\ sc.data_type = c.data_type THEN 2
    ELSE IF Like(sc.column_name, <<"%", "_", "i", "d">>) /\ sc.data_type = c.data_type
    THEN 3
    ELSE IF Like(sc.column_name, <<"%">> \o t \o <<"%">>) /\ sc.data_type = c.data_type
    THEN 4
    ELSE IF Like(sc.column_name, <<"%", "i", "d">>) THEN 5
    ELSE NULL

\* The CASE of potential_references for source column sc, table t and its
\* column c
confidence_level(sc, t, c) ==
    IF sc.column_name = t \o <<"_", "i", "d">> /\ sc.data_type = c.data_type THEN 2
    ELSE IF Like(sc.column_name, <<"%", "_", "i", "d">>) /\ sc.data_type = c.data_type
    THEN 3
    ELSE IF Like(sc.column_name, <<"%">> \o t \o <<"%">>) /\ sc.data_type = c.data_type
    THEN 4
    ELSE IF Like(sc.column_name, <<"%", "i", "d">>) /\ sc.data_type = c.data_type
    THEN 5
    ELSE NULL

\* The CTE potential_references: every table other than the one asked about,
\* joined with its columns named id or named as the source column.  SELECT
\* DISTINCT makes the rows a set.
potential_references(cat, table_name) ==
    LET joined == {<<sc, c>> \in source_columns(cat, table_name) \X cat :
                      /\ c.table_name # table_name
                      /\ c.column_name = Col_id \/ c.column_name = sc.column_name}
    IN  {[source_column |-> p[1].column_name, source_type |-> p[1].data_type,
          target_table |-> p[2].table_name, target_column |-> p[2].column_name,
          target_type |-> p[2].data_type,
          confidence_level |-> confidence_level(p[1], p[2].table_name, p[2])] :
            p \in joined}

\* The label CASE of the final SELECT
relationship_type(level) ==
    IF level = 2 THEN "Strong implied relationship (exact match)"
    ELSE IF level = 3 THEN "Strong implied relationship (_id pattern)"
    ELSE IF level = 4 THEN "Likely implied relationship (name match)"
    ELSE "Possible implied relationship"

RECURSIVE NameLess(_, _)
\* a < b for two identifiers: Alphabet holds their characters in ascending
\* (byte) order
NameLess(a, b) ==
    LET Alphabet == <<"_", "a", "c", "d", "e", "f", "g", "i", "k", "m", "n", "o", "r", "s",
                      "t", "u", "w">>
        CharRank(ch) == CHOOSE i \in 1..Len(Alphabet) : Alphabet[i] = ch
    IN  IF b = <<>> THEN FALSE
        ELSE IF a = <<>> THEN TRUE
        ELSE IF Head(a) = Head(b) THEN NameLess(Tail(a), Tail(b))
        ELSE CharRank(Head(a)) < CharRank(Head(b))

\* Faulty variant of the ORDER BY: source_column is compared first.
RowBefore_ColumnFirst(a, b) ==
    \/ NameLess(a.source_column, b.source_column)
    \/ /\ a.source_column = b.source_column
       /\ a.confidence_level < b.confidence_level

\* ORDER BY confidence_level, source_column: a sorts strictly before b
RowBefore(a, b) ==
    \/ a.confidence_level < b.confidence_level
    \/ /\ a.confidence_level = b.confidence_level
       /\ NameLess(a.source_column, b.source_column)

RECURSIVE OrderBy(_)
\* The orders the ORDER BY may give a set of rows: rows it does not tell
\* apart come in any order.
OrderBy(S) ==
    IF S = {} THEN {<<>>}
    ELSE UNION {{<<m>> \o rest : rest \in OrderBy(S \ {m})} :
                   m \in {x \in S : \A y \in S : ~RowBefore(y, x)}}

\* The results the implied statement may return for a catalog: the rows of
\* potential_references whose level is not NULL, ordered, with the columns of
\* the final SELECT
implied_select(cat, table_name) ==
    LET kept == {r \in potential_references(cat, table_name) : r.confidence_level # NULL}
        Edge(r) ==
            [column_name |-> r.source_column, foreign_table |-> r.target_table,
             foreign_column |-> r.target_column,
             relationship_type |-> relationship_type(r.confidence_level),
             confidence_level |-> r.confidence_level]
    IN  {[i \in 1..Len(o) |-> Edge(o[i])] : o \in OrderBy(kept)}

\* The text query returns for the rows of the final SELECT: a line
\* " | ".join(f"{key}: {val}") for each row
FormatRows(rows) ==
    LET FormatRow(e) ==
            "column_name: " \o Str(e.column_name)
            \o " | foreign_table: " \o Str(e.foreign_table)
            \o " | foreign_column: " \o Str(e.foreign_column)
            \o " | relationship_type: " \o e.relationship_type
            \o " | confidence_level: " \o ToString(e.confidence_level)
    IN  Join(<<"Results:", "--------">> \o [i \in 1..Len(rows) |-> FormatRow(rows[i])], "\n")

\* json.dumps([dict(row) for row in results], indent=2, default=str) for rows
\* of the final SELECT
JsonDumps(rows) ==
    LET JsonRow(e) ==
            "  {\n    \"column_name\": \"" \o Str(e.column_name)
            \o "\",\n    \"foreign_table\": \"" \o Str(e.foreign_table)
            \o "\",\n    \"foreign_column\": \"" \o Str(e.foreign_column)
            \o "\",\n    \"relationship_type\": \"" \o e.relationship_type
            \o "\",\n    \"confidence_level\": " \o ToString(e.confidence_level)
            \o "\n  }"
    IN  "[\n" \o Join([i \in 1..Len(rows) |-> JsonRow(rows[i])], ",\n") \o "\n]"

-----------------------------------------------------------------------------
(* What a tool did, beyond its Result: the statements cur.execute received, *)
(* the rows the implied statement returned, the passes of                   *)
(* find_relationships that called the backend, whether the two-section text *)
(* was built, and the exception that left the tool (if any).                *)

Ran(result) ==
    [result |-> result, statements |-> <<>>, rows |-> <<>>, passes |-> <<>>,
     sections |-> FALSE, raised |-> ""]

\* The tool raised: nothing is returned.
Raise(reg, message) == [Ran(Result(reg, "")) EXCEPT !.raised = message]

\* A query and the statement cur.execute received from it, if the query came
\* that far
Sent(r, statement, reached) ==
    [Ran(r) EXCEPT !.statements = IF r.opened = 1 /\ reached THEN <<statement>> ELSE <<>>]

\* None, where the value given otherwise is a sequence (an identifier, a
\* statement)
NoneSeq == <<None>>

\* bool(v) for v a sequence or None
Given(v) == v # NoneSeq /\ v # <<>>

\* The tokens printed for an identifier argument; the str of None is "None"
NameTokens(v) == IF v = NoneSeq THEN <<"None">> ELSE <<Str(v)>>

\* db_schema, left at its default
PublicSchema == <<"public">>

-----------------------------------------------------------------------------
(* postgres_server: query as the catalog tools call it, and                 *)
(* find_relationships.                                                      *)

\* query(sql, parameters, database): mogrify fails when the parameters do not
\* match the placeholders; the statement reaches cur.execute when the
\* connection, the cursor and mogrify succeeded
Pg_run_query(reg, sql, parameters, database, outcome) ==
    LET q == Pg_query_string(sql, parameters)
        met == IF q.error /\ outcome \notin {"connect_fail", "cursor_fail"}
               THEN "mogrify_fail" ELSE outcome
    IN  Sent(Pg_query(reg, SqlText(sql), parameters # <<>>, database, met),
             q.query_string, met \notin {"cursor_fail", "mogrify_fail"})

\* fk_sql of find_relationships
Pg_fk_sql ==
    <<"SELECT kcu.column_name, ccu.table_name as foreign_table, ... WHERE tc.constraint_type = 'FOREIGN KEY' AND tc.table_schema =",
      "%s", "AND tc.table_name =", "%s">>

\* implied_sql of find_relationships
Pg_implied_sql ==
    <<"WITH source_columns AS (SELECT column_name, data_type FROM information_schema.columns WHERE table_schema =",
      "%s", "AND table_name =", "%s",
      "AND (column_name LIKE '", "%%", "id' OR column_name LIKE '", "%%",
      "_id' OR column_name LIKE '", "%%",
      "_fk')), potential_references AS (SELECT DISTINCT ... FROM source_columns sc CROSS JOIN information_schema.tables t JOIN information_schema.columns c ON ... WHERE t.table_schema =",
      "%s", "AND t.table_name !=", "%s",
      ") SELECT ... FROM potential_references WHERE confidence_level IS NOT NULL ORDER BY confidence_level, source_column;">>

\* The sum of what two queries did to connections
Both(a, b, text) ==
    [a EXCEPT !.text = text, !.opened = a.opened + b.opened,
              !.closed = a.closed + b.closed, !.committed = a.committed \/ b.committed]

\* The text find_relationships builds of the two query results: head and
\* middle are its literals, implied_results the text of the second query
Sections(explicit, selected, head, middle, implied_results, rows) ==
    [Ran(Both(explicit.result, selected.result,
              head \o explicit.result.text \o middle \o implied_results))
     EXCEPT !.statements = explicit.statements \o selected.statements,
            !.rows = rows,
            !.passes = <<"explicit", "implied">>,
            !.sections = TRUE]

\* The second query of find_relationships returned the rows selected.
Returned(selected, outcome2, rows) ==
    selected.statements # <<>> /\ outcome2 = "rows" /\ rows # <<>>

\* explicit and selected are the two queries of find_relationships done
Pg_sections(explicit, selected, outcome2, rows) ==
    IF Returned(selected, outcome2, rows)
    THEN Sections(explicit, selected, "Explicit Relationships:\n",
                  "\n\nImplied Relationships:\n", FormatRows(rows), rows)
    ELSE Sections(explicit, selected, "Explicit Relationships:\n",
                  "\n\nImplied Relationships:\n", selected.result.text, <<>>)

\* find_relationships: outcome1 and outcome2 are the backend's part in the two
\* queries, rows what the implied statement selects if it is executed.  query
\* returns on every path, so the except clause is never entered.
Pg_find_relationships(reg, table_name, database, outcome1, outcome2, rows) ==
    Pg_sections(Pg_run_query(reg, Pg_fk_sql, <<PublicSchema, NameTokens(table_name)>>,
                             database, outcome1),
                Pg_run_query(reg, Pg_implied_sql, <<PublicSchema, NameTokens(table_name)>>,
                             database,
                             IF outcome2 = "rows" /\ rows = <<>> THEN "no_rows"
                             ELSE outcome2),
                outcome2, rows)

\* list_schemas: query is called without parameters
Pg_list_schemas(reg, database, outcome) ==
    Pg_run_query(reg,
                 <<"SELECT schema_name FROM information_schema.schemata ORDER BY schema_name">>,
                 <<>>, database, outcome)

\* list_tables
Pg_list_tables(reg, database, outcome) ==
    Pg_run_query(reg,
                 <<"SELECT table_name, table_type FROM information_schema.tables WHERE table_schema =",
                   "%s", "ORDER BY table_name">>,
                 <<PublicSchema>>, database, outcome)

\* describe_table
Pg_describe_table(reg, table_name, database, outcome) ==
    Pg_run_query(reg,
                 <<"SELECT column_name, data_type, is_nullable, column_default, character_maximum_length FROM information_schema.columns WHERE table_schema =",
                   "%s", "AND table_name =", "%s", "ORDER BY ordinal_position">>,
                 <<PublicSchema, NameTokens(table_name)>>, database, outcome)

\* get_foreign_keys
Pg_get_foreign_keys(reg, table_name, database, outcome) ==
    Pg_run_query(reg,
                 <<"SELECT tc.constraint_name, ... WHERE tc.constraint_type = 'FOREIGN KEY' AND tc.table_schema =",
                   "%s", "AND tc.table_name =", "%s",
                   "ORDER BY tc.constraint_name, kcu.ordinal_position">>,
                 <<PublicSchema, NameTokens(table_name)>>, database, outcome)

-----------------------------------------------------------------------------
(* sse_server: the catalog tools of tools/call.                             *)

\* Faulty variant of Sse_run_query: a connection that fails deselects the
\* current database.
Sse_run_query_ForgetsOnFailure(reg, sql, database, outcome) ==
    LET r == Sent(SimpleDBManager_execute_query(reg, sql, database, outcome), sql, TRUE)
    IN  IF outcome = "connect_fail" THEN [r EXCEPT !.result.reg.current_db = None] ELSE r

\* db_manager.execute_query(sql, database) and the statement cur.execute
\* received
Sse_run_query(reg, sql, database, outcome) ==
    Sent(SimpleDBManager_execute_query(reg, sql, database, outcome), sql, TRUE)

\* tools/call list_schemas
Sse_list_schemas(reg, database, outcome) ==
    Sse_run_query(reg,
                  <<"SELECT schema_name FROM information_schema.schemata ORDER BY schema_name">>,
                  database, outcome)

\* tools/call list_tables
Sse_list_tables(reg, database, outcome) ==
    Sse_run_query(reg,
                  <<"SELECT table_name, table_type FROM information_schema.tables WHERE table_schema =">>
                  \o Interpolate(PublicSchema) \o <<"ORDER BY table_name">>,
                  database, outcome)

\* tools/call describe_table: table_name is not tested
Sse_describe_table(reg, table_name, database, outcome) ==
    Sse_run_query(reg,
                  <<"SELECT column_name, data_type, is_nullable, column_default FROM information_schema.columns WHERE table_schema =">>
                  \o Interpolate(PublicSchema) \o <<"AND table_name =">>
                  \o Interpolate(NameTokens(table_name)) \o <<"ORDER BY ordinal_position">>,
                  database, outcome)

\* tools/call get_foreign_keys
Sse_get_foreign_keys(reg, table_name, database, outcome) ==
    IF Given(table_name)
    THEN Sse_run_query(reg,
                       <<"SELECT tc.constraint_name, ... WHERE tc.constraint_type = 'FOREIGN KEY' AND tc.table_schema =">>
                       \o Interpolate(PublicSchema) \o <<"AND tc.table_name =">>
                       \o Interpolate(NameTokens(table_name))
                       \o <<"ORDER BY tc.constraint_name, kcu.ordinal_position">>,
                       database, outcome)
    ELSE Ran(Result(reg, "Error: table_name parameter is required"))

\* fk_sql of find_relationships
Sse_fk_sql(table_name) ==
    <<"SELECT kcu.column_name, ccu.table_name as foreign_table, ... WHERE tc.constraint_type = 'FOREIGN KEY' AND tc.table_schema =">>
    \o Interpolate(PublicSchema) \o <<"AND tc.table_name =">>
    \o Interpolate(NameTokens(table_name))

\* implied_sql of find_relationships
Sse_implied_sql(table_name) ==
    <<"WITH source_columns AS (SELECT column_name, data_type FROM information_schema.columns WHERE table_schema =">>
    \o Interpolate(PublicSchema) \o <<"AND table_name =">>
    \o Interpolate(NameTokens(table_name))
    \o <<"AND (column_name LIKE '%id' OR column_name LIKE '%_id' OR column_name LIKE '%_fk')), potential_references AS (SELECT DISTINCT ... FROM source_columns sc CROSS JOIN information_schema.tables t JOIN information_schema.columns c ON ... WHERE t.table_schema =">>
    \o Interpolate(PublicSchema) \o <<"AND t.table_name !=">>
    \o Interpolate(NameTokens(table_name))
    \o <<") SELECT ... FROM potential_references WHERE confidence_level IS NOT NULL ORDER BY confidence_level, source_column">>

\* explicit and selected are the two queries of find_relationships done
Sse_sections(explicit, selected, outcome2, rows) ==
    IF Returned(selected, outcome2, rows)
    THEN Sections(explicit, selected, "Explicit Relationships:\\n",
                  "\\n\\nImplied Relationships:\\n", JsonDumps(rows), rows)
    ELSE Sections(explicit, selected, "Explicit Relationships:\\n",
                  "\\n\\nImplied Relationships:\\n", selected.result.text, <<>>)

\* tools/call find_relationships: every failure of execute_query comes back
\* as its "Database error" text, so both statements are always attempted and
\* the except clause is never entered
Sse_find_relationships(reg, table_name, database, outcome1, outcome2, rows) ==
    IF ~Given(table_name)
    THEN Ran(Result(reg, "Error: table_name parameter is required"))
    ELSE Sse_sections(Sse_run_query(reg, Sse_fk_sql(table_name), database, outcome1),
                      Sse_run_query(reg, Sse_implied_sql(table_name), database,
                                    IF outcome2 = "rows" /\ rows = <<>> THEN "no_rows"
                                    ELSE outcome2),
                      outcome2, rows)

-----------------------------------------------------------------------------
(* sse_server: the JSON-RPC endpoints.  sse_post_endpoint and mcp_endpoint  *)
(* are the same code on the same db_manager; one operator stands for both.  *)
(* A request is the body posted: not JSON ("malformed"), JSON that is no    *)
(* object ("array"), or an object with its members; params and arguments    *)
(* are absent, null or an object; args holds the members of arguments, None *)
(* for a member that is absent.                                             *)

\* A JSON array where a name is expected: truthy and unhashable
Unhashable == "<list>"

NoToolArgs ==
    [db_name |-> None, sql |-> NoneSeq, database |-> None, table_name |-> NoneSeq,
     name |-> None, connection_string |-> None, parameters |-> <<>>]

NoRequest ==
    [body |-> "object", method |-> None, id |-> None, params |-> "absent",
     name |-> None, arguments |-> "absent", args |-> NoToolArgs]

\* What the backend does with the request: its part in the first and the
\* second statement, in the probe of add_database, and the rows the implied
\* statement selects
NoBackend == [outcome |-> "", outcome2 |-> "", probe_ok |-> FALSE, rows |-> <<>>]

\* The id 1 of message.get("id", 1) and of the outer handler, as JSON text
DefaultId == "1"

ResultResponse(id, text) == [id |-> id, kind |-> "result", code |-> 0, text |-> text]

ErrorResponse(id, code, message) ==
    [id |-> id, kind |-> "error", code |-> code, text |-> message]

\* No response: the exception left the handler.
Escaped(message) == [id |-> None, kind |-> "exception", code |-> 0, text |-> message]

NoneHasNoGet == "'NoneType' object has no attribute 'get'"

\* The branches of tools/call, up to the text they assign to result; all but
\* list_databases and get_current_database call tool_args.get(...)
Sse_tool_branch(reg, params, b) ==
    LET tool_name == params.name
        a == params.arguments
    IN
    IF /\ params.null_arguments
       /\ tool_name \in {"switch_database", "query", "list_schemas", "list_tables",
                         "describe_table", "add_database_connection",
                         "remove_database_connection", "get_foreign_keys",
                         "find_relationships"}
    THEN Raise(reg, NoneHasNoGet)
    ELSE
    CASE tool_name = "list_databases" -> Ran(Sse_list_databases(reg))
      [] tool_name = "switch_database" ->
            IF a.db_name = Unhashable THEN Raise(reg, "unhashable type: 'list'")
            ELSE Ran(Sse_switch_database(reg, a.db_name))
      [] tool_name = "get_current_database" -> Ran(Sse_get_current_database(reg))
      [] tool_name = "query" ->
            Sent(Sse_query(reg, IF a.sql = NoneSeq THEN None ELSE SqlText(a.sql),
                           a.database, b.outcome),
                 a.sql, TRUE)
      [] tool_name = "list_schemas" -> Sse_list_schemas(reg, a.database, b.outcome)
      [] tool_name = "list_tables" -> Sse_list_tables(reg, a.database, b.outcome)
      [] tool_name = "describe_table" ->
            Sse_describe_table(reg, a.table_name, a.database, b.outcome)
      [] tool_name = "add_database_connection" ->
            Ran(Sse_add_database_connection(reg, a.name, a.connection_string, b.probe_ok))
      [] tool_name = "remove_database_connection" ->
            IF a.name = Unhashable THEN Raise(reg, "unhashable type: 'list'")
            ELSE Ran(Sse_remove_database_connection(reg, a.name))
      [] tool_name = "get_foreign_keys" ->
            Sse_get_foreign_keys(reg, a.table_name, a.database, b.outcome)
      [] tool_name = "find_relationships" ->
            Sse_find_relationships(reg, a.table_name, a.database, b.outcome,
                                   b.outcome2, b.rows)
      [] OTHER ->
            Ran(Result(reg, "Unknown tool: "
                            \o (IF tool_name = None THEN "None" ELSE tool_name)))

\* What the body of a try block came to: the response it built, or the
\* exception it raised, and what the tool did
Attempt(response, raised, ran) == [response |-> response, raised |-> raised, ran |-> ran]

\* The inner handler of tools/call: a tool's exception is answered with error
\* -32603 under the id of the request, its text with a result
InnerExcept(msg_id, ran) ==
    IF ran.raised # ""
    THEN Attempt(ErrorResponse(msg_id, -32603, "Tool execution error: " \o ran.raised), "", ran)
    ELSE Attempt(ResultResponse(msg_id, ran.result.text), "", ran)

\* message.get("params", {}) and its members name and arguments (default {}):
\* an absent name is None, absent arguments are the empty object, and
\* null_arguments says that tool_args is None
ParamsOf(request) ==
    [name |-> IF request.params = "object" THEN request.name ELSE None,
     null_arguments |-> request.params = "object" /\ request.arguments = "null",
     arguments |-> IF request.params = "object" /\ request.arguments = "object"
                   THEN request.args
                   ELSE NoToolArgs]

\* The try block of the endpoint
Sse_post_body(reg, request, b) ==
    LET idle == Ran(Result(reg, ""))
        msg_id == IF request.id = None THEN DefaultId ELSE request.id
    IN  IF request.body = "malformed"
        THEN Attempt(Escaped("Expecting value"), "Expecting value", idle)
        ELSE IF request.body = "array"
        THEN Attempt(Escaped("'list' object has no attribute 'get'"),
                     "'list' object has no attribute 'get'", idle)
        ELSE IF request.method = "initialize"
        THEN Attempt(ResultResponse(msg_id, "protocolVersion 2024-11-05"), "", idle)
        ELSE IF request.method = "tools/list"
        THEN Attempt(ResultResponse(msg_id, "tools"), "", idle)
        ELSE IF request.method = "tools/call"
        THEN IF request.params = "null"
             THEN Attempt(Escaped(NoneHasNoGet), NoneHasNoGet, idle)
             ELSE InnerExcept(msg_id, Sse_tool_branch(reg, ParamsOf(request), b))
        ELSE Attempt(ErrorResponse(msg_id, -32601,
                                   "Method not found: "
                                   \o (IF request.method = None THEN "None"
                                       ELSE request.method)),
                     "", idle)

\* Faulty variant of the outer handler: what the try block raised is raised
\* again.
OuterExcept_Reraises(tried) == tried

\* The outer handler: whatever the try block raised is answered with error
\* -32603 under the id 1
OuterExcept(tried) ==
    IF tried.raised # ""
    THEN Attempt(ErrorResponse(DefaultId, -32603, "Internal error: " \o tried.raised),
                 "", tried.ran)
    ELSE tried

\* sse_post_endpoint / mcp_endpoint
sse_post_endpoint(reg, request, b) == OuterExcept(Sse_post_body(reg, request, b))

NoExchange ==
    [request |-> NoRequest, backend |-> NoBackend, pre |-> Registry(<<>>, None),
     response |-> ResultResponse(None, ""), ran |-> Ran(Result(Registry(<<>>, None), ""))]

\* An invocation that is in no registry operation
Idle ==
    [op |-> "", pc |-> "idle", name |-> None, connection_string |-> None,
     target_db |-> None, ret |-> "", raised |-> ""]

\* Invocations one at a time, as FastMCP and the endpoints call the tools
NoRace == [atomic |-> TRUE, invocation |-> <<>>, seen |-> {}]

-----------------------------------------------------------------------------
(* Arguments the callers send. *)

ArgNames == {"primary", "x", ""}
ArgDsns == {"a", "b"}
ArgSql == {"SELECT 1"}

NoArgs ==
    [name |-> None, connection_string |-> None, database |-> None, sql |-> None,
     parameters |-> FALSE, outcome |-> ""]

NoCall ==
    [tool |-> "", args |-> NoArgs, pre |-> Registry(<<>>, None),
     result |-> Result(Registry(<<>>, None), "")]

NoRoundTrip == [stage |-> "none", name |-> None, before |-> <<>>]

\* The registry may take the entry: the model holds at most MaxEntries.
Room(name) == Has(connections, name) \/ Len(connections) < MaxEntries

\* A tool invocation returns r: the registry fields take r.reg, the open
\* connections grow by those r opened and did not close, unless the collector
\* has finalized the unclosed connection objects by then.
Invoke(tool, args, r, finalized) ==
    /\ pc = "serving"
    /\ connections' = r.reg.connections
    /\ current_db' = r.reg.current_db
    /\ open_conns' = IF finalized THEN 0 ELSE open_conns + r.opened - r.closed
    /\ last' = [tool |-> tool, args |-> args,
                pre |-> Registry(connections, current_db), result |-> r]
    /\ round_trip' =
          IF r.registry_op = "add_database" /\ r.registry_ret
          THEN [stage |-> "added", name |-> args.name, before |-> Keys(connections)]
          ELSE IF /\ r.registry_op = "remove_database"
                  /\ round_trip.stage = "added"
                  /\ round_trip.name = args.name
          THEN [round_trip EXCEPT !.stage = "removed"]
          ELSE NoRoundTrip
    /\ UNCHANGED <<impl, pc, sources, catalog, exchange, race>>

Reg == Registry(connections, current_db)

-----------------------------------------------------------------------------
(* Actions: one per tool of each program. *)

PgListDatabases ==
    /\ impl = "postgres_server"
    /\ Invoke("list_databases", NoArgs, Pg_list_databases(Reg), FALSE)

PgSwitchDatabase ==
    /\ impl = "postgres_server"
    /\ \E db_name \in ArgNames :
          Invoke("switch_database", [NoArgs EXCEPT !.name = db_name],
                 Pg_switch_database(Reg, db_name), FALSE)

PgGetCurrentDatabase ==
    /\ impl = "postgres_server"
    /\ Invoke("get_current_database", NoArgs, Pg_get_current_database(Reg), FALSE)

PgAddDatabaseConnection ==
    /\ impl = "postgres_server"
    /\ \E name \in ArgNames, connection_string \in ArgDsns, probe_ok \in BOOLEAN :
          /\ probe_ok => Room(name)
          /\ Invoke("add_database_connection",
                    [NoArgs EXCEPT !.name = name, !.connection_string = connection_string,
                                   !.outcome = IF probe_ok THEN "ok" ELSE "connect_fail"],
                    Pg_add_database_connection(Reg, name, connection_string, probe_ok),
                    FALSE)

PgRemoveDatabaseConnection ==
    /\ impl = "postgres_server"
    /\ \E name \in ArgNames :
          Invoke("remove_database_connection", [NoArgs EXCEPT !.name = name],
                 Pg_remove_database_connection(Reg, name), FALSE)

\* outcome: what the backend does with the statement, in the order query
\* meets it
PgQuery ==
    /\ impl = "postgres_server"
    /\ \E sql \in ArgSql, parameters \in BOOLEAN, database \in ArgNames \cup {None} :
          \E outcome \in IF DatabaseManager_get_connection(Reg, database).error # ""
                         THEN {""}
                         ELSE {"connect_fail", "cursor_fail", "mogrify_fail",
                               "execute_fail", "no_description", "fetch_fail", "no_rows",
                               "rows", "row_format_error"}
                              \ (IF parameters THEN {} ELSE {"mogrify_fail"}) :
             Invoke("query",
                    [NoArgs EXCEPT !.sql = sql, !.parameters = parameters,
                                   !.database = database, !.outcome = outcome],
                    Pg_query(Reg, sql, parameters, database, outcome), FALSE)

SseListDatabases ==
    /\ impl = "sse_server"
    /\ Invoke("list_databases", NoArgs, Sse_list_databases(Reg), FALSE)

SseSwitchDatabase ==
    /\ impl = "sse_server"
    /\ \E db_name \in ArgNames \cup {None} :
          Invoke("switch_database", [NoArgs EXCEPT !.name = db_name],
                 Sse_switch_database(Reg, db_name), FALSE)

SseGetCurrentDatabase ==
    /\ impl = "sse_server"
    /\ Invoke("get_current_database", NoArgs, Sse_get_current_database(Reg), FALSE)

\* The probe runs only when both arguments are truthy.
SseAddDatabaseConnection ==
    /\ impl = "sse_server"
    /\ \E name \in ArgNames \cup {None}, connection_string \in ArgDsns \cup {None} :
          \E probe_ok \in IF Truthy(name) /\ Truthy(connection_string)
                          THEN BOOLEAN ELSE {FALSE} :
             /\ probe_ok => Room(name)
             /\ Invoke("add_database_connection",
                       [NoArgs EXCEPT !.name = name, !.connection_string = connection_string,
                                      !.outcome = IF ~(Truthy(name) /\ Truthy(connection_string))
                                                  THEN ""
                                                  ELSE IF probe_ok THEN "ok"
                                                  ELSE "connect_fail"],
                       Sse_add_database_connection(Reg, name, connection_string, probe_ok),
                       FALSE)

SseRemoveDatabaseConnection ==
    /\ impl = "sse_server"
    /\ \E name \in ArgNames \cup {None} :
          Invoke("remove_database_connection", [NoArgs EXCEPT !.name = name],
                 Sse_remove_database_connection(Reg, name), FALSE)

\* The connection execute_query opened is closed only when the collector
\* finalizes the connection object: by the return, or not yet.
SseQuery ==
    /\ impl = "sse_server"
    /\ \E sql \in ArgSql \cup {None}, database \in ArgNames \cup {None} :
          \E outcome \in IF \/ ~Truthy(sql)
                            \/ SimpleDBManager_get_connection(Reg, database).error # ""
                         THEN {""}
                         ELSE {"connect_fail", "execute_fail", "no_description",
                               "no_rows", "rows"} :
             LET r == Sse_query(Reg, sql, database, outcome) IN
             \E finalized \in IF r.opened > r.closed THEN BOOLEAN ELSE {FALSE} :
                /\ ~finalized => open_conns + r.opened - r.closed <= MaxOpen
                /\ Invoke("query",
                          [NoArgs EXCEPT !.sql = sql, !.database = database,
                                         !.outcome = outcome],
                          r, finalized)

\* __init__ calls the load once, on the empty registry it has just made.
LoadConnections ==
    /\ pc = "new"
    /\ pc' = "serving"
    /\ connections' = LoadOf(impl, sources).connections
    /\ current_db' = LoadOf(impl, sources).current_db
    /\ UNCHANGED <<impl, sources, open_conns, last, round_trip, catalog, exchange, race>>

-----------------------------------------------------------------------------
(* Specifications. *)

\* Configurations the serving specification starts from: no list, a list of
\* one string, and a list whose first element is empty.
ServingSources(im) ==
    {s \in SourcesOf(im, {None, "a"}, {"b", ","}, 2, {"X"}, 0) :
        s.connection_string \in {<<>>, <<"b">>, <<",", "b">>}}

\* Configurations the load specification ranges over, with the characters
\* of the connection-string variable and the suffixes of the named ones
LoadSources(im) ==
    SourcesOf(im, {None, "", "p"}, {"a", "b", ",", " "}, MaxConnStrLen,
              {"PRIMARY", "DB_2", "X", ""}, MaxNamed)

\* A server after construction, before its first request.
Init ==
    /\ impl \in Impls
    /\ pc = "serving"
    /\ sources \in ServingSources(impl)
    /\ connections = LoadOf(impl, sources).connections
    /\ current_db = LoadOf(impl, sources).current_db
    /\ open_conns = 0
    /\ last = NoCall
    /\ round_trip = NoRoundTrip
    /\ catalog = {}
    /\ exchange = NoExchange
    /\ race = NoRace

Next ==
    \/ PgListDatabases
    \/ PgSwitchDatabase
    \/ PgGetCurrentDatabase
    \/ PgAddDatabaseConnection
    \/ PgRemoveDatabaseConnection
    \/ PgQuery
    \/ SseListDatabases
    \/ SseSwitchDatabase
    \/ SseGetCurrentDatabase
    \/ SseAddDatabaseConnection
    \/ SseRemoveDatabaseConnection
    \/ SseQuery

Spec == Init /\ [][Next]_vars

\* A manager whose __init__ has set the empty fields and is about to load.
InitLoad ==
    /\ impl \in Impls
    /\ pc = "new"
    /\ sources \in LoadSources(impl)
    /\ connections = <<>>
    /\ current_db = None
    /\ open_conns = 0
    /\ last = NoCall
    /\ round_trip = NoRoundTrip
    /\ catalog = {}
    /\ exchange = NoExchange
    /\ race = NoRace

NextLoad == LoadConnections

LoadSpec == InitLoad /\ [][NextLoad]_vars

-----------------------------------------------------------------------------
(* Relationship inference (InferSpec): find_relationships of both programs  *)
(* on the catalogs of the model.                                            *)

\* A request served at the tool boundary: the registry fields take the
\* registry the tool left, and exchange records the request, the backend's
\* part, the registry before, the response and what the tool did.
Serve(request, b, served, finalized) ==
    /\ pc = "serving"
    /\ connections' = served.ran.result.reg.connections
    /\ current_db' = served.ran.result.reg.current_db
    /\ open_conns' = IF finalized THEN 0
                     ELSE open_conns + served.ran.result.opened - served.ran.result.closed
    /\ exchange' = [request |-> request, backend |-> b,
                    pre |-> Registry(connections, current_db),
                    response |-> served.response, ran |-> served.ran]
    /\ UNCHANGED <<impl, pc, sources, last, round_trip, catalog, race>>

\* The connections a request left open
Left(served) == served.ran.result.opened - served.ran.result.closed

\* The backend's part in a statement of find_relationships
FindOutcomes == {"connect_fail", "execute_fail", "rows"}

\* A tools/call request for a tool
CallOf(tool_name, args) ==
    [NoRequest EXCEPT !.method = "tools/call", !.params = "object", !.name = tool_name,
                      !.arguments = "object", !.args = args]

\* find_relationships(table_name) of postgres_server, called by FastMCP: the
\* text returned is the result
PgFindRelationships ==
    /\ impl = "postgres_server"
    /\ \E table_name \in {T_orders} :
          \E outcome1 \in IF DatabaseManager_get_connection(Reg, None).error # ""
                          THEN {""} ELSE FindOutcomes,
             rows \in implied_select(catalog, table_name) :
             \E outcome2 \in IF outcome1 = "" THEN {""} ELSE FindOutcomes :
                \E ran \in {Pg_find_relationships(Reg, table_name, None,
                                                  outcome1, outcome2, rows)} :
                   Serve(CallOf("find_relationships",
                                [NoToolArgs EXCEPT !.table_name = table_name]),
                         [NoBackend EXCEPT !.outcome = outcome1, !.outcome2 = outcome2,
                                           !.rows = rows],
                         Attempt(ResultResponse(None, ran.result.text), "", ran), FALSE)

\* tools/call find_relationships of sse_server
SseFindRelationships ==
    /\ impl = "sse_server"
    /\ \E table_name \in {T_orders, NoneSeq} :
          \E outcome1 \in IF \/ ~Given(table_name)
                             \/ SimpleDBManager_get_connection(Reg, None).error # ""
                          THEN {""} ELSE FindOutcomes,
             rows \in implied_select(catalog, table_name) :
             \E outcome2 \in IF outcome1 = "" THEN {""} ELSE FindOutcomes :
                LET request == CallOf("find_relationships",
                                      [NoToolArgs EXCEPT !.table_name = table_name])
                    b == [NoBackend EXCEPT !.outcome = outcome1, !.outcome2 = outcome2,
                                           !.rows = rows]
                IN  \E served \in {sse_post_endpoint(Reg, request, b)} :
                       \E finalized \in IF Left(served) > 0 THEN BOOLEAN ELSE {FALSE} :
                          /\ ~finalized => open_conns + Left(served) <= MaxOpen
                          /\ Serve(request, b, served, finalized)

\* Configurations of the inference specification: no connection, or one.
InferSources(im) ==
    {s \in ServingSources(im) : s.conn = None /\ s.connection_string \in {<<>>, <<"b">>}}

\* A server after construction, with a backend whose catalog is any of the
\* model's.
InitInfer ==
    /\ impl \in Impls
    /\ pc = "serving"
    /\ sources \in InferSources(impl)
    /\ connections = LoadOf(impl, sources).connections
    /\ current_db = LoadOf(impl, sources).current_db
    /\ open_conns = 0
    /\ last = NoCall
    /\ round_trip = NoRoundTrip
    /\ catalog \in Catalogs(MaxCatalogRows)
    /\ exchange = NoExchange
    /\ race = NoRace

NextInfer ==
    \/ PgFindRelationships
    \/ SseFindRelationships

InferSpec == InitInfer /\ [][NextInfer]_vars

-----------------------------------------------------------------------------
(* Requests at the JSON-RPC endpoint and calls of the query tool            *)
(* (DispatchSpec).                                                          *)

\* Statements a caller sends: one without a placeholder, one with a
\* placeholder, one with a quoted literal and a placeholder
Statements ==
    {<<"SELECT 1">>,
     <<"SELECT schema_name FROM information_schema.schemata WHERE schema_name =", "%s">>,
     <<"SELECT", "'", "a", "'", "WHERE b =", "%s">>}

\* Parameter lists a caller sends: none, a plain value, a value with a quote
ParamLists == {<<>>, <<<<"public">>>>, <<<<"a", "'", "OR 1=1 --">>>>}

\* The tools of tools/list
ToolNames ==
    {"list_databases", "switch_database", "get_current_database", "query", "list_schemas",
     "list_tables", "describe_table", "add_database_connection",
     "remove_database_connection", "get_foreign_keys", "find_relationships"}

\* Argument objects a caller sends to a tool, with and without its required
\* members
ArgumentsOf(tool_name) ==
    CASE tool_name = "switch_database" ->
            {[NoToolArgs EXCEPT !.db_name = n] : n \in {None, "primary", "x", Unhashable}}
      [] tool_name = "query" ->
            {[NoToolArgs EXCEPT !.sql = sql, !.parameters = parameters] :
                sql \in Statements \cup {NoneSeq}, parameters \in ParamLists}
      [] tool_name \in {"describe_table", "get_foreign_keys", "find_relationships"} ->
            {[NoToolArgs EXCEPT !.table_name = t] : t \in {NoneSeq, T_orders}}
      [] tool_name = "add_database_connection" ->
            {[NoToolArgs EXCEPT !.name = n, !.connection_string = c] :
                n \in {None, "x"}, c \in {None, "b"}}
      [] tool_name = "remove_database_connection" ->
            {[NoToolArgs EXCEPT !.name = n] : n \in {None, "primary", "x", Unhashable}}
      [] OTHER -> {NoToolArgs}

\* Request bodies: not JSON, a JSON array, and objects with any method, with
\* and without id, params and arguments
Requests ==
    {[NoRequest EXCEPT !.body = body] : body \in {"malformed", "array"}}
    \cup {[NoRequest EXCEPT !.method = method, !.id = id] :
             method \in {"initialize", "tools/list", "resources/list", None},
             id \in {None, "7"}}
    \cup {[NoRequest EXCEPT !.method = "tools/call", !.id = id, !.params = params] :
             id \in {None, "7"}, params \in {"absent", "null"}}
    \cup {[NoRequest EXCEPT !.method = "tools/call", !.id = "7", !.params = "object",
                            !.name = name, !.arguments = arguments] :
             name \in ToolNames \cup {None, "bogus"}, arguments \in {"absent", "null"}}
    \cup UNION {{[CallOf(name, args) EXCEPT !.id = "7"] : args \in ArgumentsOf(name)} :
                  name \in ToolNames}

\* The request reaches a branch that builds a statement.
Executes(request) ==
    /\ request.method = "tools/call"
    /\ request.params = "object"
    /\ request.arguments # "null"
    /\ request.name \in {"query", "list_schemas", "list_tables", "describe_table",
                         "get_foreign_keys", "find_relationships"}

\* What the backend may do with the statements and the probe of a request
Backends(request) ==
    {[outcome |-> outcome, outcome2 |-> outcome2, probe_ok |-> probe_ok, rows |-> rows] :
        outcome \in IF Executes(request) THEN FindOutcomes ELSE {""},
        outcome2 \in IF Executes(request) /\ request.name = "find_relationships"
                     THEN {"execute_fail", "rows"} ELSE {""},
        probe_ok \in IF request.name = "add_database_connection" THEN BOOLEAN ELSE {FALSE},
        rows \in IF Executes(request) /\ request.name = "find_relationships"
                 THEN implied_select(catalog, T_orders) ELSE {<<>>}}

\* POST /sse (and POST /mcp): one request, one response
SsePostEndpoint ==
    /\ impl = "sse_server"
    /\ \E request \in Requests :
          \E b \in Backends(request) :
             \E served \in {sse_post_endpoint(Reg, request, b)} :
                \E finalized \in IF Left(served) > 0 THEN BOOLEAN ELSE {FALSE} :
                   /\ ~finalized => open_conns + Left(served) <= MaxOpen
                   /\ Len(served.ran.result.reg.connections) <= MaxEntries
                   /\ Serve(request, b, served, finalized)

\* query(sql, parameters, database) of postgres_server, called by FastMCP: the
\* text returned is the result
PgQueryStatement ==
    /\ impl = "postgres_server"
    /\ \E sql \in Statements, parameters \in ParamLists, database \in {None, "x"} :
          \E outcome \in IF DatabaseManager_get_connection(Reg, database).error # ""
                         THEN {""} ELSE FindOutcomes :
             \E ran \in {Pg_run_query(Reg, sql, parameters, database, outcome)} :
                Serve(CallOf("query", [NoToolArgs EXCEPT !.sql = sql,
                                                         !.parameters = parameters,
                                                         !.database = database]),
                      [NoBackend EXCEPT !.outcome = outcome],
                      Attempt(ResultResponse(None, ran.result.text), "", ran), FALSE)

\* The tool of postgres_server that FastMCP calls for a name
Pg_tool(reg, tool_name, args, b) ==
    CASE tool_name = "list_databases" -> Ran(Pg_list_databases(reg))
      [] tool_name = "switch_database" -> Ran(Pg_switch_database(reg, args.db_name))
      [] tool_name = "get_current_database" -> Ran(Pg_get_current_database(reg))
      [] tool_name = "add_database_connection" ->
            Ran(Pg_add_database_connection(reg, args.name, args.connection_string, b.probe_ok))
      [] tool_name = "remove_database_connection" ->
            Ran(Pg_remove_database_connection(reg, args.name))
      [] tool_name = "list_schemas" -> Pg_list_schemas(reg, args.database, b.outcome)
      [] tool_name = "list_tables" -> Pg_list_tables(reg, args.database, b.outcome)
      [] tool_name = "describe_table" ->
            Pg_describe_table(reg, args.table_name, args.database, b.outcome)
      [] tool_name = "get_foreign_keys" ->
            Pg_get_foreign_keys(reg, args.table_name, args.database, b.outcome)

\* A tool of postgres_server other than query and find_relationships, called
\* by FastMCP with the arguments its signature requires: the text returned is
\* the result
PgToolCall ==
    /\ impl = "postgres_server"
    /\ \E tool_name \in ToolNames \ {"query", "find_relationships"} :
          \E args \in
                CASE tool_name = "switch_database" ->
                        {[NoToolArgs EXCEPT !.db_name = n] : n \in {"primary", "x"}}
                  [] tool_name = "add_database_connection" ->
                        {[NoToolArgs EXCEPT !.name = "x", !.connection_string = "b"]}
                  [] tool_name = "remove_database_connection" ->
                        {[NoToolArgs EXCEPT !.name = n] : n \in {"primary", "x"}}
                  [] tool_name \in {"list_schemas", "list_tables"} ->
                        {[NoToolArgs EXCEPT !.database = d] : d \in {None, "x"}}
                  [] tool_name \in {"describe_table", "get_foreign_keys"} ->
                        {[NoToolArgs EXCEPT !.table_name = T_orders, !.database = d] :
                            d \in {None, "x"}}
                  [] OTHER -> {NoToolArgs} :
             \E b \in {[NoBackend EXCEPT !.outcome = outcome, !.probe_ok = probe_ok] :
                          outcome \in IF /\ Executes(CallOf(tool_name, args))
                                         /\ DatabaseManager_get_connection(Reg, args.database).error = ""
                                      THEN FindOutcomes ELSE {""},
                          probe_ok \in IF tool_name = "add_database_connection"
                                       THEN BOOLEAN ELSE {FALSE}} :
                \E ran \in {Pg_tool(Reg, tool_name, args, b)} :
                   /\ Len(ran.result.reg.connections) <= MaxEntries
                   /\ Serve(CallOf(tool_name, args), b,
                            Attempt(ResultResponse(None, ran.result.text), "", ran), FALSE)

\* GET /sse: the stream wakes and sends its notifications/ping, whose params
\* carry len(db_manager.connections)
SseKeepalive ==
    /\ impl = "sse_server"
    /\ Serve([NoRequest EXCEPT !.body = "stream", !.method = "notifications/ping"], NoBackend,
             Attempt([id |-> None, kind |-> "notification", code |-> 0,
                      text |-> ToString(Len(connections))],
                     "", Ran(Result(Reg, ""))),
             FALSE)

\* A server after construction, with a backend whose catalog holds two tables.
InitDispatch ==
    /\ impl \in Impls
    /\ pc = "serving"
    /\ sources \in InferSources(impl)
    /\ connections = LoadOf(impl, sources).connections
    /\ current_db = LoadOf(impl, sources).current_db
    /\ open_conns = 0
    /\ last = NoCall
    /\ round_trip = NoRoundTrip
    /\ catalog = {Row(T_orders, Col_customer_id, "integer"), Row(T_customer, Col_id, "integer")}
    /\ exchange = NoExchange
    /\ race = NoRace

NextDispatch ==
    \/ SsePostEndpoint
    \/ PgQueryStatement
    \/ PgToolCall
    \/ PgFindRelationships
    \/ SseKeepalive

DispatchSpec == InitDispatch /\ [][NextDispatch]_vars

-----------------------------------------------------------------------------
(* Concurrent invocations (RaceSpec): the registry operations of            *)
(* DatabaseManager run by several invocations at once, one statement of one *)
(* invocation at a time.  race.atomic tells whether the host runs every     *)
(* registry operation under one lock; DatabaseManager itself has none.      *)

\* The invocations that run at once
Invocations == {1, 2}

\* Faulty variant of MayStep: the lock excludes nobody.
MayStep_NoLock(t) == t \in Invocations

\* Invocation t may execute its next statement: always without a lock; with
\* the lock, when no other invocation is inside an operation
MayStep(t) ==
    race.atomic => \A u \in Invocations \ {t} : race.invocation[u].pc = "idle"

\* No invocation is inside a registry operation.
Quiescent(invocation) == \A t \in Invocations : invocation[t].pc = "idle"

\* One statement of invocation t: the fields of the manager and of the
\* invocation after it.  race.seen collects what has gone wrong so far: the
\* operations have left current_db naming no entry, or an entry was gone
\* when a statement that had tested it came to use it (raised).
Step(t, d, cur, inv, raised) ==
    /\ pc = "serving"
    /\ impl = "postgres_server"
    /\ MayStep(t)
    /\ connections' = d
    /\ current_db' = cur
    /\ race' = [race EXCEPT
                   !.invocation[t] = inv,
                   !.seen = race.seen
                            \cup (IF /\ Quiescent([race.invocation EXCEPT ![t] = inv])
                                     /\ cur # None
                                     /\ ~Has(d, cur)
                                  THEN {"current_db names no entry"} ELSE {})
                            \cup (IF raised = "" THEN {} ELSE {raised})]
    /\ UNCHANGED <<impl, pc, sources, open_conns, last, round_trip, catalog, exchange>>

\* The operation returns or raises: its locals are gone, the caller has what
\* it returned or raised.
Finish(ret, raised) == [Idle EXCEPT !.ret = ret, !.raised = raised]

\* An invocation enters a registry operation: the probe of add_database has
\* succeeded, the others start at their first statement.
RaceCall ==
    \E t \in Invocations :
       /\ race.invocation[t].pc = "idle"
       /\ \E op \in {"get_connection", "switch_database", "add_database", "remove_database"},
             name \in {None, "primary", "x"} :
             /\ op # "get_connection" => name # None
             /\ op = "add_database" => Room(name)
             /\ Step(t, connections, current_db,
                     [Idle EXCEPT !.op = op, !.pc = op, !.name = name,
                                  !.connection_string = IF op = "add_database" THEN "b"
                                                        ELSE None],
                     "")

\* get_connection, statement by statement
GetConnectionStep ==
    \E t \in Invocations :
       LET inv == race.invocation[t] IN
       /\ inv.op = "get_connection"
       /\ \/ /\ inv.pc = "get_connection"
             /\ Step(t, connections, current_db,
                     [inv EXCEPT !.pc = "if not target_db",
                                 !.target_db = IF Truthy(inv.name) THEN inv.name
                                               ELSE current_db],
                     "")
          \/ /\ inv.pc = "if not target_db"
             /\ Step(t, connections, current_db,
                     IF ~Truthy(inv.target_db) THEN Finish("", "NotSelected")
                     ELSE [inv EXCEPT !.pc = "if target_db not in"],
                     "")
          \/ /\ inv.pc = "if target_db not in"
             /\ Step(t, connections, current_db,
                     IF ~Has(connections, inv.target_db) THEN Finish("", "NotFound")
                     ELSE [inv EXCEPT !.pc = "connection_string ="],
                     "")
          \/ /\ inv.pc = "connection_string ="
             /\ IF Has(connections, inv.target_db)
                THEN Step(t, connections, current_db,
                          Finish(Get(connections, inv.target_db), ""), "")
                ELSE Step(t, connections, current_db, Finish("", "KeyError"),
                          "KeyError in get_connection")

\* switch_database, statement by statement
SwitchDatabaseStep ==
    \E t \in Invocations :
       LET inv == race.invocation[t] IN
       /\ inv.op = "switch_database"
       /\ \/ /\ inv.pc = "switch_database"
             /\ Step(t, connections, current_db,
                     IF ~Has(connections, inv.name) THEN Finish("False", "")
                     ELSE [inv EXCEPT !.pc = "self.current_db ="],
                     "")
          \/ /\ inv.pc = "self.current_db ="
             /\ Step(t, connections, inv.name, Finish("True", ""), "")

\* add_database after its probe: the one statement that stores the entry
AddDatabaseStep ==
    \E t \in Invocations :
       LET inv == race.invocation[t] IN
       /\ inv.op = "add_database"
       /\ inv.pc = "add_database"
       /\ Step(t, Put(connections, inv.name, inv.connection_string), current_db,
               Finish("True", ""), "")

\* remove_database, statement by statement
RemoveDatabaseStep ==
    \E t \in Invocations :
       LET inv == race.invocation[t] IN
       /\ inv.op = "remove_database"
       /\ \/ /\ inv.pc = "remove_database"
             /\ Step(t, connections, current_db,
                     IF ~Has(connections, inv.name) THEN Finish("False", "")
                     ELSE [inv EXCEPT !.pc = "del"],
                     "")
          \/ /\ inv.pc = "del"
             /\ IF Has(connections, inv.name)
                THEN Step(t, Del(connections, inv.name), current_db,
                          [inv EXCEPT !.pc = "if self.current_db == name"], "")
                ELSE Step(t, connections, current_db, Finish("", "KeyError"),
                          "KeyError in remove_database")
          \/ /\ inv.pc = "if self.current_db == name"
             /\ Step(t, connections, current_db,
                     IF current_db = inv.name THEN [inv EXCEPT !.pc = "self.current_db ="]
                     ELSE Finish("True", ""),
                     "")
          \/ /\ inv.pc = "self.current_db ="
             /\ Step(t, connections, FirstKey(connections), Finish("True", ""), "")

\* A postgres_server after construction, in a host that runs its invocations
\* at once, with or without a lock around the registry operations
InitRace ==
    /\ impl = "postgres_server"
    /\ pc = "serving"
    /\ sources \in InferSources(impl)
    /\ connections = LoadOf(impl, sources).connections
    /\ current_db = LoadOf(impl, sources).current_db
    /\ open_conns = 0
    /\ last = NoCall
    /\ round_trip = NoRoundTrip
    /\ catalog = {}
    /\ exchange = NoExchange
    /\ race \in {[atomic |-> atomic, invocation |-> [t \in Invocations |-> Idle], seen |-> {}] :
                    atomic \in BOOLEAN}

NextRace ==
    \/ RaceCall
    \/ GetConnectionStep
    \/ SwitchDatabaseStep
    \/ AddDatabaseStep
    \/ RemoveDatabaseStep

RaceSpec == InitRace /\ [][NextRace]_vars

-----------------------------------------------------------------------------
(* Properties of the registry while serving (Spec). *)

IsKey(d, name) == \E i \in 1..Len(d) : d[i].name = name

Removed == "remove_database_connection"

\* C1: while serving, current_db is None or a key of connections; with no
\* entries it is None.
C1_CurrentIsUnsetOrAKey ==
    pc = "serving" =>
        /\ current_db = None \/ IsKey(connections, current_db)
        /\ connections = <<>> => current_db = None

\* C1 witness: the current entry has been removed and another took its place.
C1_Witness ==
    /\ last.tool = Removed
    /\ last.result.registry_ret
    /\ last.pre.current_db = last.args.name
    /\ current_db # None

Targets(n) ==
    /\ last.result.target = n
    /\ \E i \in 1..Len(last.pre.connections) :
          /\ last.pre.connections[i].name = n
          /\ last.pre.connections[i].dsn = last.result.dsn

\* C3: a query resolves a given, present name to that entry and no name to the
\* current entry; a given, absent name fails with NotFound, connects to nothing
\* and does not fall back to the current entry; no name and no current entry
\* fails with NotSelected.
C3_ResolveNamedOrCurrent ==
    (last.tool = "query" /\ Truthy(last.args.sql)) =>
        LET database == last.args.database
            present == IsKey(last.pre.connections, database)
        IN  /\ (Truthy(database) /\ present) => Targets(database)
            /\ (database = None /\ Truthy(last.pre.current_db))
                  => Targets(last.pre.current_db)
            /\ (Truthy(database) /\ ~present)
                  => /\ last.result.error = "NotFound"
                     /\ last.result.target = None
                     /\ last.result.opened = 0
            /\ (database = None /\ last.pre.current_db = None)
                  => /\ last.result.error = "NotSelected"
                     /\ last.result.opened = 0

\* C4: switch_database to a name that is no key fails and leaves the registry
\* as it was; to a key, it sets current_db to it and succeeds.
C4_SwitchUnknownLeavesCurrent ==
    last.tool = "switch_database" =>
        LET n == last.args.name
            succeeded == last.result.text = "Switched to database: " \o n
        IN  /\ connections = last.pre.connections
            /\ IF IsKey(last.pre.connections, n)
               THEN current_db = n /\ succeeded
               ELSE current_db = last.pre.current_db /\ ~succeeded

\* C4 witness: a switch to an unknown name while another entry was current.
C4_Witness ==
    /\ last.tool = "switch_database"
    /\ ~IsKey(last.pre.connections, last.args.name)
    /\ last.pre.current_db # None
    /\ Len(last.pre.connections) > 0

\* C5: add_database whose probe fails returns False and leaves connections
\* (keys, strings, order) and current_db as they were.
C5_FailedProbeAddsNothing ==
    (/\ last.tool = "add_database_connection"
     /\ last.result.registry_op = "add_database"
     /\ last.args.outcome = "connect_fail")
    => /\ ~last.result.registry_ret
       /\ last.result.text = "Failed to add database connection: " \o last.args.name
       /\ connections = last.pre.connections
       /\ current_db = last.pre.current_db

\* C5 witness: the probe failed for a name that was a key with another string.
C5_Witness ==
    /\ last.tool = "add_database_connection"
    /\ last.result.registry_op = "add_database"
    /\ last.args.outcome = "connect_fail"
    /\ \E i \in 1..Len(last.pre.connections) :
          /\ last.pre.connections[i].name = last.args.name
          /\ last.pre.connections[i].dsn # last.args.connection_string

\* C6: remove_database_connection of "primary" is refused before any registry
\* method is called: connections and current_db are as they were and the
\* refusal is returned.
C6_PrimaryIsProtected ==
    (last.tool = Removed /\ last.args.name = "primary")
    => /\ last.result.registry_op = ""
       /\ last.result.text = "Cannot remove the primary database connection."
       /\ connections = last.pre.connections
       /\ current_db = last.pre.current_db

\* C6 witness: the refusal, with "primary" a key, current, and not alone.
C6_Witness ==
    /\ last.tool = Removed
    /\ last.args.name = "primary"
    /\ IsKey(last.pre.connections, "primary")
    /\ last.pre.current_db = "primary"
    /\ Len(connections) > 1

\* C7: when an invocation has returned, every connection it opened is closed,
\* and no connection of an earlier invocation is open.
C7_NoConnectionLeftOpen ==
    /\ last.result.opened = last.result.closed
    /\ open_conns = 0

-----------------------------------------------------------------------------
(* Properties of the load (LoadSpec). *)

\* The elements of the comma-separated list.
Elems == SplitConnections(sources.connection_string)

\* connections[n] is v.
Holds(n, v) ==
    \E i \in 1..Len(connections) : connections[i].name = n /\ connections[i].dsn = v

\* A POSTGRES_DB_* variable names the entry n.
NamedEntry(n) == \E i \in 1..Len(sources.named) : Lower(sources.named[i].suffix) = n

Loaded == pc = "serving"

\* C9: with an explicit primary connection string, after the load
\* connections["primary"] is that string and current_db is "primary".
C9_ExplicitPrimaryWins ==
    (Loaded /\ impl = "postgres_server" /\ Truthy(sources.conn))
    => Holds("primary", sources.conn) /\ current_db = "primary"

\* C10 as stated: the first element of the list is stored under "primary"
\* exactly if no explicit primary was set, and every later non-empty element
\* at position k is stored under db_k.
C10_ListNamedByPosition ==
    (Loaded /\ sources.connection_string # <<>>)
    => /\ Holds("primary", Elems[1]) <=> ~Truthy(sources.conn)
       /\ \A k \in 2..Len(Elems) : Elems[k] # "" => Holds(DbName(k), Elems[k])

\* C10 as amended: a non-empty first element is stored under "primary" if no
\* explicit primary was set and under "db_1" otherwise; an empty first element
\* is not stored by postgres_server (sse_server stores it under "primary");
\* every later non-empty element at position k is stored under db_k; in each
\* case unless a POSTGRES_DB_* variable of that name replaced the string.
C10_ListNamedByPositionUnlessReplaced ==
    (Loaded /\ sources.connection_string # <<>>)
    => /\ impl = "sse_server" => Holds("primary", Elems[1])
       /\ (impl = "postgres_server" /\ Elems[1] # "")
             => IF Truthy(sources.conn)
                THEN Holds("db_1", Elems[1]) \/ NamedEntry("db_1")
                ELSE Holds("primary", Elems[1]) \/ NamedEntry("primary")
       /\ (impl = "postgres_server" /\ Elems[1] = "")
             => /\ IsKey(connections, "db_1") => NamedEntry("db_1")
                /\ IsKey(connections, "primary")
                      => Truthy(sources.conn) \/ NamedEntry("primary")
       /\ \A k \in 2..Len(Elems) :
             Elems[k] # "" => Holds(DbName(k), Elems[k]) \/ NamedEntry(DbName(k))

\* C10 witness: postgres_server has loaded a list whose first element is empty
\* and whose later element stands under its position's name.
C10_Witness ==
    /\ Loaded
    /\ impl = "postgres_server"
    /\ Len(Elems) >= 3
    /\ Elems[1] = ""
    /\ Elems[2] = ""
    /\ Elems[3] # ""
    /\ Holds("db_3", Elems[3])
    /\ current_db = None

-----------------------------------------------------------------------------
(* Properties of relationship inference (InferSpec). *)

\* The table the last request asked about
Asked == exchange.request.args.table_name

\* The last request was find_relationships with a table name.
FindCalled == exchange.request.name = "find_relationships" /\ Given(Asked)

\* ... and the backend executes the implied statement when it receives it.
BackendSelects == FindCalled /\ exchange.backend.outcome2 = "rows"

\* The edges the implied pass returned
Edges == exchange.ran.rows

\* s ends with the characters suffix.
EndsWith(s, suffix) ==
    /\ Len(s) >= Len(suffix)
    /\ SubSeq(s, Len(s) - Len(suffix) + 1, Len(s)) = suffix

\* s contains the characters t.
Contains(s, t) == \E i \in 0..(Len(s) - Len(t)) : SubSeq(s, i + 1, i + Len(t)) = t

\* The rows of the catalog an edge connects
EdgeSource(e) == {c \in catalog : c.table_name = Asked /\ c.column_name = e.column_name}
EdgeTarget(e) ==
    {c \in catalog : c.table_name = e.foreign_table /\ c.column_name = e.foreign_column}

\* C11: for orders(customer_id integer) and one other table customer(id
\* integer), the implied pass returns exactly one edge, customer_id ->
\* customer.id, at confidence level 2.
C11_ExactMatchIsLevelTwo ==
    (/\ BackendSelects
     /\ Asked = T_orders
     /\ catalog = {Row(T_orders, Col_customer_id, "integer"),
                   Row(T_customer, Col_id, "integer")})
    => /\ Len(Edges) = 1
       /\ Edges[1].column_name = Col_customer_id
       /\ Edges[1].foreign_table = T_customer
       /\ Edges[1].foreign_column = Col_id
       /\ Edges[1].confidence_level = 2

\* The level the priority rules give source column s and target table t: the
\* first of s = t_id, s ends with _id, s contains t, s ends with id.
RuleLevel(s, t) ==
    IF s = t \o <<"_", "i", "d">> THEN 2
    ELSE IF EndsWith(s, <<"_", "i", "d">>) THEN 3
    ELSE IF Contains(s, t) THEN 4
    ELSE IF EndsWith(s, <<"i", "d">>) THEN 5
    ELSE NULL

\* C12: every edge returned has the level of the first rule that matches its
\* source column and target table.
C12_FirstMatchingRule ==
    \A i \in 1..Len(Edges) :
        Edges[i].confidence_level = RuleLevel(Edges[i].column_name, Edges[i].foreign_table)

\* C13: every edge returned connects two columns of the same data type and
\* has a level; a type-mismatched candidate is not among the edges.
C13_TypeMismatchNeverEmitted ==
    \A i \in 1..Len(Edges) :
        /\ Edges[i].confidence_level # NULL
        /\ \E sc \in EdgeSource(Edges[i]), c \in EdgeTarget(Edges[i]) :
              sc.data_type = c.data_type

\* C13 witness: the implied pass returned edges for a catalog in which an
\* ID-like column of the table differs in type from the id column of another
\* table.
C13_Witness ==
    /\ BackendSelects
    /\ Edges # <<>>
    /\ \E sc \in source_columns(catalog, Asked), c \in catalog :
          /\ c.table_name # Asked
          /\ c.column_name = Col_id
          /\ c.data_type # sc.data_type
          /\ EndsWith(sc.column_name, <<"i", "d">>)

\* C14: an edge whose source column ends in id but not in _id, and does not
\* contain the target table's name, has level 5, not 3.
C14_PlainIdSuffixIsLevelFive ==
    \A i \in 1..Len(Edges) :
        (/\ EndsWith(Edges[i].column_name, <<"i", "d">>)
         /\ ~EndsWith(Edges[i].column_name, <<"_", "i", "d">>)
         /\ ~Contains(Edges[i].column_name, Edges[i].foreign_table))
        => Edges[i].confidence_level = 5

\* C15: no two edges returned agree in source column, target table and
\* target column; the edges are in ascending order of level and, within a
\* level, of source column; every level is in 2..5.
C15_DistinctAndOrdered ==
    /\ \A i, j \in 1..Len(Edges) :
          (/\ Edges[i].column_name = Edges[j].column_name
           /\ Edges[i].foreign_table = Edges[j].foreign_table
           /\ Edges[i].foreign_column = Edges[j].foreign_column) => i = j
    /\ \A i \in 1..Len(Edges) : Edges[i].confidence_level \in 2..5
    /\ \A i, j \in 1..Len(Edges) :
          i < j =>
             \/ Edges[i].confidence_level < Edges[j].confidence_level
             \/ /\ Edges[i].confidence_level = Edges[j].confidence_level
                /\ ~NameLess(Edges[j].column_name, Edges[i].column_name)

\* C15 witness: two edges were returned, the first of a lower level and of a
\* source column that sorts after the second's.
C15_Witness ==
    /\ BackendSelects
    /\ Len(Edges) >= 2
    /\ Edges[1].confidence_level < Edges[2].confidence_level
    /\ NameLess(Edges[2].column_name, Edges[1].column_name)

\* The explicit pass failed: no connection was resolved, the backend was not
\* reached, or the statement failed.
ExplicitFailed ==
    /\ FindCalled
    /\ exchange.backend.outcome \in {"", "connect_fail", "execute_fail"}

\* C16: when the explicit pass of find_relationships fails, the call fails:
\* the implied pass is not run and the two-section text is not returned.
C16_ExplicitFailureFailsCall ==
    ExplicitFailed =>
        /\ ~exchange.ran.sections
        /\ \A i \in 1..Len(exchange.ran.passes) : exchange.ran.passes[i] # "implied"

-----------------------------------------------------------------------------
(* Properties of the endpoint and of the query tool (DispatchSpec). *)

\* The last request was a tools/call that reached the branch of a tool with
\* an arguments object (sent, or defaulted to the empty object).
ToolCalled ==
    /\ exchange.request.body = "object"
    /\ exchange.request.method = "tools/call"
    /\ exchange.request.params = "object"
    /\ exchange.request.arguments \in {"absent", "object"}

\* The arguments of the last request lack a member its tool requires.
OmitsRequired ==
    LET a == ParamsOf(exchange.request).arguments
        tool_name == exchange.request.name
    IN  \/ tool_name = "switch_database" /\ a.db_name = None
        \/ tool_name = "query" /\ a.sql = NoneSeq
        \/ /\ tool_name \in {"describe_table", "get_foreign_keys", "find_relationships"}
           /\ a.table_name = NoneSeq
        \/ /\ tool_name = "add_database_connection"
           /\ a.name = None \/ a.connection_string = None
        \/ tool_name = "remove_database_connection" /\ a.name = None

\* C17: a tool invocation that omits a required argument is answered with a
\* message as its result and not with a fault, sends no statement to a
\* backend and leaves the registry as it was.
C17_MissingArgumentRejected ==
    (ToolCalled /\ OmitsRequired)
    => /\ exchange.response.kind = "result"
       /\ exchange.response.text # ""
       /\ exchange.ran.raised = ""
       /\ exchange.ran.statements = <<>>
       /\ exchange.ran.result.opened = 0
       /\ exchange.ran.result.reg = exchange.pre

\* C18: every request is answered with a result or with an error that has a
\* code and a message; no exception leaves the endpoint or the query tool.
\* (The ping of the keepalive stream answers no request.)
C18_NoFailureEscapes ==
    (exchange # NoExchange /\ exchange.request.body # "stream")
    => \/ exchange.response.kind = "result"
       \/ /\ exchange.response.kind = "error"
          /\ exchange.response.code \in {-32601, -32603}
          /\ exchange.response.text # ""

\* C18 witness: a body that is not JSON was answered with error -32603.
C18_Witness ==
    /\ exchange.request.body = "malformed"
    /\ exchange.response.kind = "error"
    /\ exchange.response.code = -32603

\* The structure of a statement: every quoted literal replaced by ?, where
\* inside a literal two quotes in a row are a quote character and one alone
\* ends the literal
RECURSIVE Structure(_, _)
Structure(stmt, in_literal) ==
    IF stmt = <<>> THEN <<>>
    ELSE IF ~in_literal
    THEN IF Head(stmt) = "'" THEN <<"?">> \o Structure(Tail(stmt), TRUE)
         ELSE <<Head(stmt)>> \o Structure(Tail(stmt), FALSE)
    ELSE IF Head(stmt) # "'" THEN Structure(Tail(stmt), TRUE)
    ELSE IF Len(stmt) >= 2 /\ stmt[2] = "'" THEN Structure(Tail(Tail(stmt)), TRUE)
    ELSE Structure(Tail(stmt), FALSE)

\* The structure of a statement with placeholders: a value in the place of
\* each placeholder
Skeleton(sql) ==
    Structure([i \in 1..Len(sql) |-> IF sql[i] = "%s" THEN "?" ELSE sql[i]], FALSE)

\* C19: the statement query sends has, with parameters, the structure of the
\* caller's statement with one value in the place of each placeholder,
\* whatever the values are; without parameters it is the caller's statement.
C19_ParametersBoundByPosition ==
    (/\ exchange.request.name = "query"
     /\ exchange.request.arguments = "object"
     /\ exchange.ran.statements # <<>>)
    => IF exchange.request.args.parameters = <<>>
       THEN exchange.ran.statements[1] = exchange.request.args.sql
       ELSE Structure(exchange.ran.statements[1], FALSE)
               = Skeleton(exchange.request.args.sql)

-----------------------------------------------------------------------------
(* Properties of list_databases (Spec). *)

\* C20: list_databases on a registry without connections returns the text
\* that says no connection is configured, as a result without error.
C20_EmptyRegistryIsSaid ==
    (last.tool = "list_databases" /\ last.pre.connections = <<>>)
    => /\ last.result.error = ""
       /\ last.result.text = "No database connections configured."

-----------------------------------------------------------------------------
(* Properties of execute (DispatchSpec). *)

\* The last request was a query with a statement and with no parameters or
\* one for each placeholder, and a connection string was resolved for it.
QueryCalled ==
    /\ exchange.request.name = "query"
    /\ exchange.request.arguments = "object"
    /\ Given(exchange.request.args.sql)
    /\ exchange.ran.result.dsn # None
    /\ \/ exchange.request.args.parameters = <<>>
       \/ Len(exchange.request.args.parameters) = Placeholders(exchange.request.args.sql)

\* The text the caller of the last query would have got for the statement sql
\* from a backend doing outcome, on the registry the request found
Reply(sql, outcome) ==
    IF impl = "sse_server"
    THEN sse_post_endpoint(exchange.pre,
                           [exchange.request EXCEPT !.args.sql = sql],
                           [exchange.backend EXCEPT !.outcome = outcome]).response.text
    ELSE Pg_run_query(exchange.pre, sql, exchange.request.args.parameters,
                      exchange.request.args.database, outcome).result.text

\* C21: when a query meets an unreachable backend or a failing statement, the
\* text for the one differs from the text for the other and from the text of
\* a success, and the text for a failing statement depends on the statement.
C21_FailuresAreTold ==
    (QueryCalled /\ exchange.backend.outcome \in {"connect_fail", "execute_fail"})
    => /\ exchange.response.text = Reply(exchange.request.args.sql, exchange.backend.outcome)
       /\ Reply(exchange.request.args.sql, "connect_fail")
             # Reply(exchange.request.args.sql, "execute_fail")
       /\ exchange.response.text # Reply(exchange.request.args.sql, "rows")
       /\ exchange.backend.outcome = "execute_fail"
             => \A other \in Statements \ {exchange.request.args.sql} :
                   Placeholders(other) = Placeholders(exchange.request.args.sql)
                      => Reply(other, "execute_fail") # exchange.response.text

-----------------------------------------------------------------------------
(* Further properties of the registry while serving (Spec). *)

\* resolve without a name on the registry as it is
ResolveCurrent ==
    IF impl = "sse_server" THEN SimpleDBManager_get_connection(Reg, None)
    ELSE DatabaseManager_get_connection(Reg, None)

\* C24: current_db changes only by a switch to a key, which sets it to that
\* name, and by a remove of the entry it names; every other invocation leaves
\* it as it was, and an add into a registry without a current entry leaves it
\* unset, so that resolve without a name fails with NotSelected.
C24_CurrentChangesTwoWays ==
    /\ (last.tool # "" /\ current_db # last.pre.current_db)
          => \/ /\ last.tool = "switch_database"
                /\ IsKey(last.pre.connections, last.args.name)
                /\ current_db = last.args.name
             \/ /\ last.tool = Removed
                /\ last.result.registry_ret
                /\ last.args.name = last.pre.current_db
    /\ (last.tool = "add_database_connection" /\ last.pre.current_db = None)
          => /\ current_db = None
             /\ ResolveCurrent.error = "NotSelected"

\* C24 witness: an add into a registry without a current entry succeeded.
C24_Witness ==
    /\ last.tool = "add_database_connection"
    /\ last.result.registry_ret
    /\ last.pre.current_db = None
    /\ IsKey(connections, last.args.name)
    /\ current_db = None

-----------------------------------------------------------------------------
(* Further properties of the load (LoadSpec). *)

\* C25: after the load, a registry with at least one entry has a current
\* entry, and it is one of those stored.
C25_LoadSelectsAStoredEntry ==
    (pc = "serving" /\ connections # <<>>)
    => /\ current_db # None
       /\ IsKey(connections, current_db)

-----------------------------------------------------------------------------
(* Properties of the protected name (Spec). *)

\* C27: a tool invocation on a registry with the key "primary" leaves a
\* registry with the key "primary"; if current_db was set as well, the
\* registry is not empty afterwards and current_db is still set.
C27_PrimaryStays ==
    [][IsKey(connections, "primary")
          => /\ IsKey(connections', "primary")
             /\ current_db # None => (connections' # <<>> /\ current_db' # None)]_vars

\* C27 witness: remove_database_connection was asked to remove "primary",
\* which is still a key.
C27_Witness ==
    /\ last.tool = Removed
    /\ last.args.name = "primary"
    /\ IsKey(last.pre.connections, "primary")
    /\ IsKey(connections, "primary")

-----------------------------------------------------------------------------
(* Properties of add over an existing name (Spec). *)

\* resolve of the name n on the registry as it is
Resolve(n) ==
    IF impl = "sse_server" THEN SimpleDBManager_get_connection(Reg, n)
    ELSE DatabaseManager_get_connection(Reg, n)

\* The last invocation was add_database_connection of an existing name with
\* a successful probe.
AddedOver ==
    /\ last.tool = "add_database_connection"
    /\ last.result.registry_ret
    /\ IsKey(last.pre.connections, last.args.name)

-----------------------------------------------------------------------------
(* Properties of the response (DispatchSpec). *)

\* C29: the response to a request whose body is a JSON object with an id has
\* that id, whether it carries a result or an error.
C29_ResponseEchoesId ==
    (exchange.request.body = "object" /\ exchange.request.id # None)
    => exchange.response.id = exchange.request.id

-----------------------------------------------------------------------------
(* Properties of the transaction of query in postgres_server (Spec). *)

\* C30: query of postgres_server commits when the statement was executed and
\* has no result columns, and in no other case; every connection it opened
\* it has closed.
C30_CommitOnlyWithoutColumns ==
    (impl = "postgres_server" /\ last.tool = "query")
    => /\ last.result.committed
             <=> (last.result.dsn # None /\ last.args.outcome = "no_description")
       /\ last.result.closed = last.result.opened

\* C30 witness: a statement with result columns was executed and its
\* connection closed without a commit.
C30_Witness ==
    /\ impl = "postgres_server"
    /\ last.tool = "query"
    /\ last.args.outcome = "rows"
    /\ last.result.opened = 1
    /\ last.result.closed = 1
    /\ ~last.result.committed

-----------------------------------------------------------------------------
(* Properties of the parameters of the catalog tools of postgres_server     *)
(* (DispatchSpec).                                                          *)

\* A tool of postgres_server whose statement has placeholders was called on a
\* registry that resolves its database, and the backend connects and
\* executes what it receives.
PlaceholderToolServed ==
    /\ impl = "postgres_server"
    /\ exchange.request.name \in {"list_tables", "describe_table", "get_foreign_keys",
                                  "find_relationships"}
    /\ DatabaseManager_get_connection(exchange.pre, exchange.request.args.database).error = ""
    /\ exchange.backend.outcome = "rows"
    /\ exchange.backend.outcome2 \in {"", "rows"}

\* C26: a statement that a tool builds with placeholders is passed to query
\* with as many parameters as it has placeholders, so binding never fails on
\* arity: every statement of list_tables, describe_table, get_foreign_keys and
\* of the two passes of find_relationships reaches cur.execute.
C26_BindingNeverFailsOnArity ==
    PlaceholderToolServed
    => Len(exchange.ran.statements)
          = (IF exchange.request.name = "find_relationships" THEN 2 ELSE 1)

-----------------------------------------------------------------------------
(* Properties of the tools that only read the registry (DispatchSpec).      *)

\* The last exchange was a call of switch_database, add_database_connection
\* or remove_database_connection.
RegistryToolCalled ==
    /\ exchange.request.method = "tools/call"
    /\ exchange.request.name \in {"switch_database", "add_database_connection",
                                  "remove_database_connection"}

\* C22: only the add, remove and switch tools change the registry: query,
\* list_schemas, list_tables, describe_table, get_foreign_keys,
\* find_relationships, list_databases, get_current_database (every other
\* request, too) and the keepalive stream leave the entries and the current
\* name as they were, whether they succeed or fail.
C22_OnlyRegistryToolsChangeRegistry ==
    (exchange # NoExchange /\ ~RegistryToolCalled)
    => /\ exchange.ran.result.reg = exchange.pre
       /\ Reg = exchange.pre

\* C22 witness: a catalog tool whose connection failed, on a registry with a
\* current entry, left the registry as it was.
C22_Witness ==
    /\ exchange.request.name \in {"list_schemas", "list_tables", "describe_table",
                                  "get_foreign_keys", "find_relationships"}
    /\ exchange.backend.outcome = "connect_fail"
    /\ exchange.pre.connections # <<>>
    /\ exchange.pre.current_db # None
    /\ Reg = exchange.pre

-----------------------------------------------------------------------------
(* Properties of concurrent invocations (RaceSpec). *)

\* C23: when every registry operation runs atomically, the operations never
\* leave current_db naming an entry that is not stored and no statement finds
\* an entry gone that an earlier statement of its operation had tested.  (Without the
\* lock both happen: the witness.)
C23_AtomicOperationsAreSafe ==
    race.atomic
    => /\ race.seen = {}
       /\ (Quiescent(race.invocation) /\ current_db # None) => Has(connections, current_db)

\* C23 witness: without a lock, switch_database interleaved with
\* remove_database has left current_db naming a removed entry, and
\* get_connection has passed its membership test for an entry that was
\* removed before it read the connection string.
C23_Witness ==
    /\ ~race.atomic
    /\ Quiescent(race.invocation)
    /\ current_db # None
    /\ ~Has(connections, current_db)
    /\ "current_db names no entry" \in race.seen
    /\ "KeyError in get_connection" \in race.seen

=============================================================================
